---- MODULE Spec2Model ----
(***************************************************************************)
(* State-machine model of the gameplay core of gatsby-guardians:           *)
(*   - WeaponBase / WeaponManager   (cooldown-gated fire contract)         *)
(*   - ObjectPool / Projectile / ChipShotgun / MasalaFlamer                *)
(*   - InputMapper / digitalizeAxis (per-frame current/previous actions)   *)
(*   - StatusEffect / SoggyEffect / StatusEffectManager / Player speed     *)
(*   - PolonyPummeler / CalamariWhip (transient visuals and their timers)  *)
(*   - Player.update                (one frame of the scene)               *)
(*   - Enemy                        (damage, saturation, damage flash)     *)
(*   - AudioManager                 (music tracks and fade callbacks)      *)
(* Each subsystem has its own specification (SpecWeapon, SpecPool,         *)
(* SpecManager, SpecVisual, SpecInput, SpecAxis, SpecEffects, SpecSoggy,   *)
(* SpecFrame, SpecJump, SpecFacing, SpecEnemy, SpecAudio); the variables   *)
(* of the other subsystems stay at their constructed values.               *)
(***************************************************************************)
EXTENDS Integers, Sequences, FiniteSets, TLC

VARIABLES
    \* ---- WeaponManager / WeaponBase ----
    cooldownFrames,   \* WeaponBase.cooldownFrames, one per weapon instance
    owner,            \* WeaponBase.owner # null, one per weapon instance
    weapons,          \* WeaponManager.weapons: the types the map holds a weapon for
    currentIndex,     \* WeaponManager.currentIndex (0-based, as in the code)
    currentWeapon,    \* WeaponManager.currentWeapon: the type of the weapon object
                      \* held, NoWeapon when the field is undefined
    pool,             \* ChipShotgun.projectilePool: the group's members in creation order
    projectiles,      \* ChipShotgun.projectiles: the members the weapon is tracking
    isFiring,         \* MasalaFlamer.isFiring
    flameCone,        \* MasalaFlamer.flameCone # null
    launchLog,        \* history: outcome of each launch made by the most recent call
    volleys,          \* history: volleys the chip shotgun has fired
    updatesLeft,      \* history: update() calls the run still has (Unbounded: any number)
    poolHits,         \* history: projectile hits counted where they are bounded
    weaponCall,       \* history: the most recent weapon call and its return value
    onFireLog,        \* history: onFire invocations made by the most recent call
    sinceFire,        \* history: update() calls the weapon has had since its last successful fire,
                      \* counted up to fireRate + 1 ("more than fireRate")
    \* ---- InputMapper ----
    touchDevice,      \* 'ontouchstart' in window (fixed for the page)
    listening,        \* the mapper's keydown/keyup listeners sit on the live scene's keyboard
    hasJoystick,      \* InputMapper.virtualJoystick # null (mobile buttons exist with it)
    keysPressed,      \* InputMapper.keysPressed (KeyboardEvent.code strings)
    mobileJumpPressed,
    mobileFirePressed,
    gamepad,          \* what navigator.getGamepads()[gamepadIndex] held at the last update()
    joystickForce,    \* the virtual joystick's forceX/forceY at the last update()
    currentActions,   \* InputMapper.currentActions
    previousActions,  \* InputMapper.previousActions
    heldFrames,       \* history: consecutive update() calls that have left the action
                      \* in the current set, up to the present
                      \* (0 = not current, 1 = first frame, 2 = two or more)
    frame,            \* history: parity of the number of update() calls
    keysSinceAttach,  \* history: keys held whose keydown arrived after the latest setScene
    \* ---- digitalizeAxis on its own ----
    axisValue,        \* the analog value handed to digitalizeAxis
    axisDeadzone,     \* the deadzone handed to digitalizeAxis
    axisResult,       \* what the call returned
    axisDone,         \* the call has been made
    \* ---- StatusEffectManager / StatusEffect / Player ----
    target,           \* StatusEffectManager.target # null
    activeEffects,    \* StatusEffectManager.activeEffects: type -> effect object
    currentSpeed,     \* Player.currentSpeed
    nextEffectId,     \* identity of the next SoggyEffect object constructed
    applyCalls,       \* history: onApply invocations per effect object
    removeCalls,      \* history: onRemove invocations per effect object
    speedAtApply,     \* history: the target's speed when the object's onApply ran
    hookLog,          \* history: hooks run by the most recent manager call, in order
    effectCall,       \* history: the most recent manager call and its argument
    \* ---- Player ----
    coyoteFrames,     \* Player.coyoteFrames
    jumpBufferFrames, \* Player.jumpBufferFrames
    flipX,            \* the sprite's flipX
    jumpCalls,        \* history: jump() calls made by the most recent Player.update
    frameLog,         \* history: the components advanced by the most recent scene
                      \* update, in call order
    airFrames,        \* history: updates since the one that last found the body on
                      \* the floor (0: the latest update did), counted up to
                      \* COYOTE_TIME_FRAMES + 1, which is also its value for a body
                      \* that has not been found on a floor since it was
                      \* constructed or reset
    jumpedSinceFloor, \* history: jump() has run in or after the latest on-floor update
    pressAge,         \* history: updates since the jump press that is waiting in the
                      \* buffer (NoPress: none is waiting), counted up to
                      \* INPUT_BUFFER_FRAMES + 1
    lastMoveX,        \* history: sign of the horizontal axis in the latest update
                      \* that moved the player (0: never moved)
    fireAttempt,      \* history: direction x handed to weaponManager.fire by the
                      \* latest update (0: fire was not called)
    \* ---- Enemy ----
    enemyHealth,      \* Enemy.health
    saturation,       \* Enemy.saturation, in halves (0.5 is 1)
    isSoggy,          \* Enemy.isSoggy
    enemySpeed,       \* Enemy.config.speed, in halves
    enemyDestroyed,   \* destroy() has run
    enemyCall,        \* history: the most recent call and the weapon that hit
    enemyTint,        \* the sprite's tint: "red" 0xff0000, "white" 0xffffff, "blue" 0x8888ff
    flashTimers,      \* the scene clock's pending flash callbacks of the enemy
    \* ---- PolonyPummeler / CalamariWhip on their own ----
    visWeapon,        \* the class of the weapon instance
    visCooldown,      \* its WeaponBase.cooldownFrames
    visual,           \* PolonyPummeler.hitbox / CalamariWhip.whipLine: 0 is null,
                      \* otherwise the object made by the weapon's n-th onFire
    visCreated,       \* objects the weapon has added to the scene
    visDestroys,      \* history: per object, who called destroy() on it, in order
                      \* (n: the timer callback of the n-th fire, 0: the weapon's destroy())
    visTimers,        \* the scene clock's pending delayedCall events of the weapon
    visCall,          \* history: the most recent call on the weapon
    \* ---- AudioManager ----
    music,            \* AudioManager.music: per key the Howl the map holds, or NoMusic
    howls,            \* Howl objects created by loadMusic so far
    currentMusic,     \* AudioManager.currentMusic: a Howl, or NoMusic for null
    playing,          \* per Howl: it is playing
    fading,           \* per Howl: a fade() of it is in progress
    fadeListeners,    \* per Howl: the once('fade') callbacks not yet run
    audioCalls,       \* history: playMusic / stopMusic calls made
    audioCall         \* history: the most recent call or event and its track

weaponVars == <<cooldownFrames, owner, weapons, currentIndex, currentWeapon, pool, projectiles,
                isFiring, flameCone, launchLog, volleys, updatesLeft, poolHits,
                weaponCall,
                onFireLog, sinceFire>>
inputVars  == <<touchDevice, listening, hasJoystick, keysPressed, mobileJumpPressed,
                mobileFirePressed, gamepad, joystickForce, currentActions,
                previousActions, heldFrames, frame, keysSinceAttach>>
effectVars == <<target, activeEffects, currentSpeed, nextEffectId, applyCalls,
                removeCalls, speedAtApply, hookLog, effectCall>>
axisVars   == <<axisValue, axisDeadzone, axisResult, axisDone>>
playerVars == <<coyoteFrames, jumpBufferFrames, flipX, jumpCalls, frameLog, airFrames,
                jumpedSinceFloor, pressAge, lastMoveX, fireAttempt>>
enemyVars  == <<enemyHealth, saturation, isSoggy, enemySpeed, enemyDestroyed, enemyCall,
                enemyTint, flashTimers>>
visualVars == <<visWeapon, visCooldown, visual, visCreated, visDestroys, visTimers, visCall>>
audioVars == <<music, howls, currentMusic, playing, fading, fadeListeners, audioCalls, audioCall>>
vars == <<weaponVars, inputVars, effectVars, axisVars, playerVars, enemyVars, visualVars, audioVars>>

Min(a, b) == IF a < b THEN a ELSE b

(***************************************************************************)
(*                       WeaponBase / WeaponManager                        *)
(***************************************************************************)

\* WeaponType enum values
WeaponTypes == {"polonypummeler", "chipshotgun", "calamariwhip", "masalaflamer"}

\* WeaponManager.weaponOrder
weaponOrder == <<"polonypummeler", "chipshotgun", "calamariwhip", "masalaflamer">>

\* config.fireRate of the four concrete weapons
PolonyFireRate == 15
ChipFireRate == 30
WhipFireRate == 45
FlamerFireRate == 2

FireRate(w) ==
    CASE w = "polonypummeler" -> PolonyFireRate
      [] w = "chipshotgun"    -> ChipFireRate
      [] w = "calamariwhip"   -> WhipFireRate
      [] w = "masalaflamer"   -> FlamerFireRate

\* the direction records Player.handleWeaponInput hands to fire
Directions == {[x |-> 1, y |-> 0], [x |-> -1, y |-> 0]}

\* value of sinceFire for a weapon that has not fired yet
NeverFired == 0 - 1

\* currentWeapon when weapons.get(...) found nothing
NoWeapon == "undefined"

\* the weapon the selection index points at: weapons.get(weaponOrder[currentIndex])
CurrentWeapon ==
    IF weaponOrder[currentIndex + 1] \in weapons
    THEN weaponOrder[currentIndex + 1] ELSE NoWeapon

\* WeaponBase.update: if (cooldownFrames > 0) cooldownFrames--
WeaponBaseUpdateSkipsGuard(cd) == cd - 1
WeaponBaseUpdate(cd) == IF cd > 0 THEN cd - 1 ELSE cd

\* WeaponBase.fire on a weapon with cooldown cd and owner flag own:
\* the return value, the cooldown afterwards and the onFire invocations made
WeaponBaseFireIgnoresCooldown(w, cd, own, dir) ==
    IF ~own
    THEN [fired |-> FALSE, cooldown |-> cd, effects |-> <<>>]
    ELSE [fired |-> TRUE, cooldown |-> FireRate(w),
          effects |-> <<[weapon |-> w, direction |-> dir]>>]
WeaponBaseFireAddsCooldown(w, cd, own, dir) ==
    IF cd > 0 \/ ~own
    THEN [fired |-> FALSE, cooldown |-> cd, effects |-> <<>>]
    ELSE [fired |-> TRUE, cooldown |-> FireRate(w) + 1,
          effects |-> <<[weapon |-> w, direction |-> dir]>>]
WeaponBaseFire(w, cd, own, dir) ==
    IF cd > 0 \/ ~own
    THEN [fired |-> FALSE, cooldown |-> cd, effects |-> <<>>]
    ELSE [fired |-> TRUE, cooldown |-> FireRate(w),
          effects |-> <<[weapon |-> w, direction |-> dir]>>]

\* ---- ObjectPool<Projectile> and Projectile, as ChipShotgun uses them ----

\* new ObjectPool<Projectile>(scene, Projectile, 30): the group's maxSize
ChipPoolSize == 30
\* ProjectileConfig.lifetime handed to launch by ChipShotgun.onFire
ChipProjectileLifetime == 120
\* spreadAngles of ChipShotgun.onFire, in degrees
spreadAngles == <<0 - 15, 0, 15>>

\* A pool member is [active, lifetimeFrames]; the group is the sequence of its
\* members in creation order. Group.get() hands out the first inactive member,
\* creates one while the group holds fewer than maxSize and is null (0 here)
\* otherwise.
FirstInactive(members) ==
    LET inactive == {i \in 1..Len(members) : ~members[i].active}
    IN  IF inactive = {} THEN 0
        ELSE CHOOSE i \in inactive : \A j \in inactive : i <= j

\* ObjectPool.get(): pool.get(), then setActive(true) on what came back
ObjectPoolGetGrows(members) ==
    LET i == FirstInactive(members)
    IN  IF i # 0
        THEN [obj |-> i, outcome |-> "reused",
              members |-> [members EXCEPT ![i].active = TRUE]]
        ELSE [obj |-> Len(members) + 1, outcome |-> "created",
              members |-> Append(members, [active |-> TRUE, lifetimeFrames |-> 0])]
ObjectPoolGet(members) ==
    LET i == FirstInactive(members)
    IN  IF i # 0
        THEN [obj |-> i, outcome |-> "reused",
              members |-> [members EXCEPT ![i].active = TRUE]]
        ELSE IF Len(members) < ChipPoolSize
        THEN [obj |-> Len(members) + 1, outcome |-> "created",
              members |-> Append(members, [active |-> TRUE, lifetimeFrames |-> 0])]
        ELSE [obj |-> 0, outcome |-> "dropped", members |-> members]

\* ObjectPool.release(obj): setActive(false), killAndHide
ObjectPoolRelease(p) == [p EXCEPT !.active = FALSE]

\* Projectile.launch / update / deactivate
ProjectileLaunch(p, lifetime) == [active |-> TRUE, lifetimeFrames |-> lifetime]
ProjectileDeactivate(p) == [p EXCEPT !.active = FALSE]
ProjectileUpdate(p) ==
    IF ~p.active THEN p
    ELSE LET left == p.lifetimeFrames - 1
         IN  IF left <= 0
             THEN ProjectileDeactivate([p EXCEPT !.lifetimeFrames = left])
             ELSE [p EXCEPT !.lifetimeFrames = left]

\* The chip shotgun's own state is a record [pool, projectiles, launches].
\* One iteration of spreadAngles.forEach in ChipShotgun.onFire
ChipShotgunLaunch(S, offset) ==
    LET g == ObjectPoolGet(S.pool)
    IN  IF g.obj = 0
        THEN [S EXCEPT !.launches = Append(@, [offset |-> offset, outcome |-> g.outcome])]
        ELSE [pool |-> [g.members EXCEPT
                            ![g.obj] = ProjectileLaunch(@, ChipProjectileLifetime)],
              projectiles |-> S.projectiles \cup {g.obj},
              launches |-> Append(S.launches, [offset |-> offset, outcome |-> g.outcome])]

\* ChipShotgun.onFire
ChipShotgunOnFire(S, own) ==
    IF ~own THEN S
    ELSE ChipShotgunLaunch(
            ChipShotgunLaunch(
                ChipShotgunLaunch(S, spreadAngles[1]), spreadAngles[2]), spreadAngles[3])

\* ChipShotgun.update after super.update(): a tracked projectile found inactive
\* is dropped from the set and released, every other one is updated
ChipShotgunUpdate(S) ==
    [S EXCEPT !.pool = [i \in 1..Len(S.pool) |->
                            IF i \notin S.projectiles THEN S.pool[i]
                            ELSE IF ~S.pool[i].active THEN ObjectPoolRelease(S.pool[i])
                            ELSE ProjectileUpdate(S.pool[i])],
              !.projectiles = {i \in S.projectiles : S.pool[i].active}]

\* number of active projectiles in a group
ActiveCount(members) == Cardinality({i \in 1..Len(members) : members[i].active})

\* ---- what the callers do in the model ----
\* most volleys the chip shotgun fires through WeaponManager.fire in one run
MaxVolleys == 2
\* updatesLeft of a run whose number of update() calls is not bounded
Unbounded == 0 - 1
SpendUpdate(left) == IF left = Unbounded THEN Unbounded ELSE left - 1

\* ---- MasalaFlamer: a record [isFiring, flameCone] ----

\* MasalaFlamer.onFire: isFiring = true, the cone is created if there is none
MasalaFlamerOnFire(F, own) ==
    IF ~own THEN F ELSE [isFiring |-> TRUE, flameCone |-> TRUE]

\* MasalaFlamer.stopFiring
stopFiring(F) == [isFiring |-> FALSE, flameCone |-> FALSE]

\* MasalaFlamer.update after super.update()
MasalaFlamerUpdate(F) ==
    IF ~F.isFiring /\ F.flameCone THEN [F EXCEPT !.flameCone = FALSE] ELSE F

\* ---- WeaponManager ----

\* The manager's calls act on a record of the manager and its four weapons so
\* that the calls a frame makes in sequence compose.
Arsenal ==
    [cooldown |-> cooldownFrames, own |-> owner, weapons |-> weapons,
     index |-> currentIndex, current |-> currentWeapon,
     chip |-> [pool |-> pool, projectiles |-> projectiles, launches |-> <<>>],
     flamer |-> [isFiring |-> isFiring, flameCone |-> flameCone],
     since |-> sinceFire, result |-> FALSE, effects |-> <<>>, threw |-> FALSE]

\* WeaponManager.update: weapons.forEach(weapon => weapon.update()); a weapon
\* the map no longer holds is not updated
weaponsUpdateCurrentOnly(A) ==
    [A EXCEPT !.cooldown = [w \in WeaponTypes |->
                                IF w \in A.weapons /\ w = A.current
                                THEN WeaponBaseUpdate(A.cooldown[w]) ELSE A.cooldown[w]],
              !.chip = IF "chipshotgun" \in A.weapons /\ A.current = "chipshotgun"
                       THEN ChipShotgunUpdate(@) ELSE @,
              !.flamer = IF "masalaflamer" \in A.weapons /\ A.current = "masalaflamer"
                         THEN MasalaFlamerUpdate(@) ELSE @,
              !.since = [w \in WeaponTypes |->
                            IF w \notin A.weapons \/ A.since[w] = NeverFired
                            THEN A.since[w]
                            ELSE Min(A.since[w] + 1, FireRate(w) + 1)]]
weaponsUpdate(A) ==
    [A EXCEPT !.cooldown = [w \in WeaponTypes |->
                                IF w \in A.weapons
                                THEN WeaponBaseUpdate(A.cooldown[w]) ELSE A.cooldown[w]],
              !.chip = IF "chipshotgun" \in A.weapons THEN ChipShotgunUpdate(@) ELSE @,
              !.flamer = IF "masalaflamer" \in A.weapons THEN MasalaFlamerUpdate(@) ELSE @,
              !.since = [w \in WeaponTypes |->
                            IF w \notin A.weapons \/ A.since[w] = NeverFired
                            THEN A.since[w]
                            ELSE Min(A.since[w] + 1, FireRate(w) + 1)]]

\* WeaponManager.fire: return this.currentWeapon.fire(direction). The call
\* goes to the object the field holds, whether or not the map still holds it;
\* with the field undefined the call throws a TypeError.
weaponsFire(A, dir) ==
    IF A.current = NoWeapon THEN [A EXCEPT !.threw = TRUE] ELSE
    LET w == A.current
        r == WeaponBaseFire(w, A.cooldown[w], A.own[w], dir)
    IN  [A EXCEPT !.cooldown[w] = r.cooldown,
                  !.since[w] = IF r.fired THEN 0 ELSE @,
                  !.chip = IF r.fired /\ w = "chipshotgun"
                           THEN ChipShotgunOnFire(@, A.own[w]) ELSE @,
                  !.flamer = IF r.fired /\ w = "masalaflamer"
                             THEN MasalaFlamerOnFire(@, A.own[w]) ELSE @,
                  !.result = r.fired,
                  !.effects = A.effects \o r.effects]

\* this.weapons.get(type)
weaponsGet(A, type) == IF type \in A.weapons THEN type ELSE NoWeapon

\* WeaponManager.nextWeapon / previousWeapon: the index moves, currentWeapon
\* becomes weapons.get(weaponOrder[currentIndex]) and the console.log reads
\* currentWeapon.getName(), which throws a TypeError when the map gave nothing
nextWeaponNoWrap(A) ==
    LET i == Min(A.index + 1, Len(weaponOrder) - 1)
        w == weaponsGet(A, weaponOrder[i + 1])
    IN  [A EXCEPT !.index = i, !.current = w, !.threw = (w = NoWeapon)]
nextWeapon(A) ==
    LET i == (A.index + 1) % Len(weaponOrder)
        w == weaponsGet(A, weaponOrder[i + 1])
    IN  [A EXCEPT !.index = i, !.current = w, !.threw = (w = NoWeapon)]
previousWeapon(A) ==
    LET i == (A.index - 1 + Len(weaponOrder)) % Len(weaponOrder)
        w == weaponsGet(A, weaponOrder[i + 1])
    IN  [A EXCEPT !.index = i, !.current = w, !.threw = (w = NoWeapon)]

\* ChipShotgun.destroy: every tracked projectile is released, the tracking set
\* is cleared and the group is cleared with its members destroyed
ChipShotgunDestroy(S) == [S EXCEPT !.pool = <<>>, !.projectiles = {}]

\* MasalaFlamer.destroy: the cone is destroyed if there is one; isFiring stays
MasalaFlamerDestroy(F) == [F EXCEPT !.flameCone = FALSE]

\* WeaponManager.destroy: weapons.forEach(weapon => weapon.destroy());
\* weapons.clear(). currentWeapon and currentIndex are left as they are.
weaponsDestroy(A) ==
    [A EXCEPT !.chip = IF "chipshotgun" \in A.weapons THEN ChipShotgunDestroy(@) ELSE @,
              !.flamer = IF "masalaflamer" \in A.weapons
                         THEN MasalaFlamerDestroy(@) ELSE @,
              !.weapons = {}]

\* the next state of the weapon variables is the record A
ArsenalBecomes(A) ==
    /\ cooldownFrames' = A.cooldown
    /\ owner' = A.own
    /\ weapons' = A.weapons
    /\ currentIndex' = A.index
    /\ currentWeapon' = A.current
    /\ pool' = A.chip.pool
    /\ projectiles' = A.chip.projectiles
    /\ launchLog' = A.chip.launches
    /\ isFiring' = A.flamer.isFiring
    /\ flameCone' = A.flamer.flameCone
    /\ sinceFire' = A.since
    /\ onFireLog' = A.effects

\* the record of the call just made
CallRecord(op, A) ==
    [op |-> op, weapon |-> currentWeapon, result |-> A.result,
     ticks |-> IF currentWeapon = NoWeapon THEN NeverFired ELSE sinceFire[currentWeapon],
     threw |-> A.threw]

\* WeaponManager.setOwner (called by the Player constructor): every weapon gets the owner
WeaponManagerSetOwner ==
    LET A == [Arsenal EXCEPT !.own = [w \in WeaponTypes |-> w \in weapons \/ owner[w]]]
    IN  /\ ArsenalBecomes(A)
        /\ weaponCall' = CallRecord("setOwner", A)
        /\ UNCHANGED <<volleys, updatesLeft, poolHits>>

\* WeaponManager.update, called once per frame by Player.update
WeaponManagerUpdate ==
    LET A == weaponsUpdate(Arsenal)
    IN  /\ updatesLeft # 0
        /\ updatesLeft' = SpendUpdate(updatesLeft)
        /\ ArsenalBecomes(A)
        /\ weaponCall' = CallRecord("update", A)
        /\ UNCHANGED <<volleys, poolHits>>

\* WeaponManager.fire(direction)
WeaponManagerFire(dir) ==
    LET A == weaponsFire(Arsenal, dir)
    IN  /\ ArsenalBecomes(A)
        /\ weaponCall' = CallRecord("fire", A)
        /\ volleys' = volleys + Len(A.chip.launches) \div Len(spreadAngles)
        /\ volleys' <= MaxVolleys
        /\ UNCHANGED <<updatesLeft, poolHits>>

\* WeaponManager.nextWeapon()
NextWeapon ==
    LET A == nextWeapon(Arsenal)
    IN  /\ ArsenalBecomes(A)
        /\ weaponCall' = CallRecord("nextWeapon", A)
        /\ UNCHANGED <<volleys, updatesLeft, poolHits>>

\* WeaponManager.previousWeapon()
PreviousWeapon ==
    LET A == previousWeapon(Arsenal)
    IN  /\ ArsenalBecomes(A)
        /\ weaponCall' = CallRecord("previousWeapon", A)
        /\ UNCHANGED <<volleys, updatesLeft, poolHits>>

\* WeaponManager.destroy()
WeaponManagerDestroy ==
    LET A == weaponsDestroy(Arsenal)
    IN  /\ ArsenalBecomes(A)
        /\ weaponCall' = CallRecord("destroy", A)
        /\ UNCHANGED <<volleys, updatesLeft, poolHits>>

\* MasalaFlamer.stopFiring() on the flamer the manager was built with
StopFiring ==
    LET A == [Arsenal EXCEPT !.flamer = stopFiring(@)]
    IN  /\ ArsenalBecomes(A)
        /\ weaponCall' = CallRecord("stopFiring", A)
        /\ UNCHANGED <<volleys, updatesLeft, poolHits>>

\* ---- the chip shotgun's pool driven directly ----
\* most ChipShotgun.update calls and most Projectile.deactivate calls from
\* outside in a run of the pool on its own
MaxPoolUpdates == 1
MaxPoolHits == 1

\* the next state of the chip shotgun is the record S
ChipBecomes(S) ==
    /\ pool' = S.pool
    /\ projectiles' = S.projectiles
    /\ launchLog' = S.launches

\* ChipShotgun.onFire(direction), whatever the cooldown
PoolOnFire(dir) ==
    /\ ChipBecomes(ChipShotgunOnFire(Arsenal.chip, owner["chipshotgun"]))
    /\ weaponCall' = [op |-> "onFire", weapon |-> "chipshotgun", result |-> TRUE,
                      ticks |-> ActiveCount(pool), threw |-> FALSE]
    /\ onFireLog' = <<[weapon |-> "chipshotgun", direction |-> dir]>>
    /\ UNCHANGED <<cooldownFrames, owner, weapons, currentIndex, currentWeapon, isFiring,
                   flameCone, volleys, updatesLeft, poolHits, sinceFire>>

\* ChipShotgun.update()
PoolUpdate ==
    /\ updatesLeft # 0
    /\ updatesLeft' = SpendUpdate(updatesLeft)
    /\ cooldownFrames' = [cooldownFrames EXCEPT
                            !["chipshotgun"] = WeaponBaseUpdate(@)]
    /\ ChipBecomes(ChipShotgunUpdate(Arsenal.chip))
    /\ weaponCall' = [op |-> "chipUpdate", weapon |-> "chipshotgun", result |-> FALSE,
                      ticks |-> ActiveCount(pool), threw |-> FALSE]
    /\ onFireLog' = <<>>
    /\ UNCHANGED <<owner, weapons, currentIndex, currentWeapon, isFiring, flameCone, volleys,
                   poolHits, sinceFire>>

\* ChipShotgun.destroy()
PoolDestroy ==
    /\ ChipBecomes(ChipShotgunDestroy(Arsenal.chip))
    /\ weaponCall' = [op |-> "chipDestroy", weapon |-> "chipshotgun", result |-> FALSE,
                      ticks |-> ActiveCount(pool), threw |-> FALSE]
    /\ onFireLog' = <<>>
    /\ UNCHANGED <<cooldownFrames, owner, weapons, currentIndex, currentWeapon, isFiring,
                   flameCone, volleys, updatesLeft, poolHits, sinceFire>>

\* Projectile.deactivate() on the i-th member of the group
PoolDeactivate(i) ==
    /\ poolHits < MaxPoolHits
    /\ i \in 1..Len(pool)
    /\ pool[i].active
    /\ poolHits' = poolHits + 1
    /\ pool' = [pool EXCEPT ![i] = ProjectileDeactivate(@)]
    /\ launchLog' = <<>>
    /\ weaponCall' = [op |-> "deactivate", weapon |-> "chipshotgun", result |-> FALSE,
                      ticks |-> ActiveCount(pool), threw |-> FALSE]
    /\ onFireLog' = <<>>
    /\ UNCHANGED <<cooldownFrames, owner, weapons, currentIndex, currentWeapon, projectiles,
                   isFiring, flameCone, volleys, updatesLeft, sinceFire>>

\* ---- the transient visuals of PolonyPummeler and CalamariWhip ----
\* The melee hit-region and the whip line are scene objects the weapon holds in
\* one field; each onFire also hands the scene clock a delayedCall. The clock
\* runs the callbacks of one weapon in the order they were added (their delays
\* are equal); how many frames pass before a callback runs depends on the
\* frame rate and is left open.
VisualWeapons == {"polonypummeler", "calamariwhip"}

\* the delay of the delayedCall, in milliseconds
HitboxDelayMs == 50
WhipLineDelayMs == 166
ExpiryDelay(w) == IF w = "polonypummeler" THEN HitboxDelayMs ELSE WhipLineDelayMs

\* most fires of the weapon in one run
MaxSwings == 2

\* the weapon's visual state as one record
Transient == [visual |-> visual, created |-> visCreated, destroys |-> visDestroys,
              timers |-> visTimers]

\* the scene object's destroy(), called by who
DestroyObject(destroys, id, who) == [destroys EXCEPT ![id] = Append(@, who)]

\* PolonyPummeler.onFire / CalamariWhip.onFire: a new object replaces whatever
\* the field held, and a callback is scheduled
TransientOnFire(V, w, own) ==
    IF ~own THEN V
    ELSE LET id == V.created + 1
         IN [visual |-> id,
             created |-> id,
             destroys |-> Append(V.destroys, <<>>),
             timers |-> Append(V.timers, [fire |-> id, delay |-> ExpiryDelay(w)])]

\* the callback handed to delayedCall by the n-th onFire: it reads the field
TransientExpire(V, n) ==
    IF V.visual # 0
    THEN [V EXCEPT !.destroys = DestroyObject(V.destroys, V.visual, n),
                   !.visual = 0]
    ELSE V

\* PolonyPummeler.destroy / CalamariWhip.destroy
TransientDestroy(V) ==
    IF V.visual # 0
    THEN [V EXCEPT !.destroys = DestroyObject(V.destroys, V.visual, 0),
                   !.visual = 0]
    ELSE V

\* the next visual state of the weapon is the record V
TransientBecomes(V) ==
    /\ visual' = V.visual
    /\ visCreated' = V.created
    /\ visDestroys' = V.destroys
    /\ visTimers' = V.timers

\* WeaponBase.fire(direction) on the weapon
VisualFire(dir) ==
    LET r == WeaponBaseFire(visWeapon, visCooldown, TRUE, dir)
        V == IF r.fired THEN TransientOnFire(Transient, visWeapon, TRUE) ELSE Transient
    IN /\ V.created <= MaxSwings
       /\ visCooldown' = r.cooldown
       /\ TransientBecomes(V)
       /\ visCall' = [op |-> "fire", fire |-> IF r.fired THEN V.created ELSE 0]
       /\ UNCHANGED visWeapon

\* WeaponBase.update() on the weapon
VisualUpdate ==
    /\ visCooldown' = WeaponBaseUpdate(visCooldown)
    /\ visCall' = [op |-> "update", fire |-> 0]
    /\ UNCHANGED <<visWeapon, visual, visCreated, visDestroys, visTimers>>

\* the scene clock runs the oldest pending callback of the weapon
VisualExpire ==
    /\ visTimers # <<>>
    /\ TransientBecomes([TransientExpire(Transient, Head(visTimers).fire)
                            EXCEPT !.timers = Tail(visTimers)])
    /\ visCall' = [op |-> "expire", fire |-> Head(visTimers).fire]
    /\ UNCHANGED <<visWeapon, visCooldown>>

\* destroy() on the weapon
VisualDestroy ==
    /\ TransientBecomes(TransientDestroy(Transient))
    /\ visCall' = [op |-> "destroy", fire |-> 0]
    /\ UNCHANGED <<visWeapon, visCooldown>>

(***************************************************************************)
(*                               InputMapper                               *)
(***************************************************************************)

\* GameAction enum values
GameAction == {"moveLeft", "moveRight", "moveUp", "moveDown", "jump", "attack",
               "primaryFire", "secondaryFire", "weaponNext", "weaponPrev", "pause"}

\* Analog values (gamepad axes, joystick forces, the deadzone) are written in
\* hundredths: 0.2 is 20, -0.5 is -50.
INPUT_DEADZONE == 20

Abs(v) == IF v < 0 THEN 0 - v ELSE v

\* digitalizeAxis(value, deadzone)
digitalizeAxisInclusive(value, deadzone) ==
    IF Abs(value) <= deadzone THEN 0
    ELSE IF value < 0 THEN 0 - 1 ELSE 1
digitalizeAxis(value, deadzone) ==
    IF Abs(value) < deadzone THEN 0
    ELSE IF value < 0 THEN 0 - 1 ELSE 1

\* navigator.getGamepads()[gamepadIndex] is null/undefined
NoGamepad == [present |-> FALSE, axisX |-> 0, axisY |-> 0, buttons |-> {}]

\* the actions updateKeyboardInput adds for a set of held key codes
KeyboardActions(keys) ==
    LET leftDown  == "ArrowLeft" \in keys \/ "KeyA" \in keys
        rightDown == "ArrowRight" \in keys \/ "KeyD" \in keys
        upDown    == "ArrowUp" \in keys \/ "KeyW" \in keys
        downDown  == "ArrowDown" \in keys \/ "KeyS" \in keys
    IN  {a \in GameAction :
            \/ a = "moveLeft" /\ leftDown
            \/ a = "moveRight" /\ rightDown
            \/ a = "moveUp" /\ upDown
            \/ a = "moveDown" /\ downDown
            \/ a = "jump" /\ ("Space" \in keys \/ upDown)
            \/ a = "primaryFire" /\ ("KeyZ" \in keys \/ "KeyJ" \in keys)
            \/ a = "secondaryFire" /\ ("KeyX" \in keys \/ "KeyK" \in keys)
            \/ a = "weaponPrev" /\ "KeyQ" \in keys
            \/ a = "weaponNext" /\ "KeyE" \in keys
            \/ a = "pause" /\ "Escape" \in keys
            \/ a = "attack" /\ ("KeyZ" \in keys \/ "KeyX" \in keys)}

\* the actions updateGamepadInput adds for a polled gamepad
GamepadActions(gp) ==
    IF ~gp.present THEN {}
    ELSE
    LET digitalX == digitalizeAxis(gp.axisX, INPUT_DEADZONE)
        digitalY == digitalizeAxis(gp.axisY, INPUT_DEADZONE)
    IN  {a \in GameAction :
            \/ a = "moveLeft" /\ (digitalX < 0 \/ 14 \in gp.buttons)
            \/ a = "moveRight" /\ (digitalX > 0 \/ 15 \in gp.buttons)
            \/ a = "moveUp" /\ (digitalY < 0 \/ 12 \in gp.buttons)
            \/ a = "moveDown" /\ (digitalY > 0 \/ 13 \in gp.buttons)
            \/ a = "jump" /\ 0 \in gp.buttons
            \/ a = "primaryFire" /\ 2 \in gp.buttons
            \/ a = "secondaryFire" /\ 1 \in gp.buttons
            \/ a = "weaponPrev" /\ 4 \in gp.buttons
            \/ a = "weaponNext" /\ 5 \in gp.buttons
            \/ a = "pause" /\ 9 \in gp.buttons
            \/ a = "attack" /\ 2 \in gp.buttons}

\* the actions updateVirtualJoystickInput adds (none without a joystick)
JoystickActions(has, force) ==
    IF ~has THEN {}
    ELSE
    LET digitalX == digitalizeAxis(force.forceX, INPUT_DEADZONE)
        digitalY == digitalizeAxis(force.forceY, INPUT_DEADZONE)
    IN  {a \in GameAction :
            \/ a = "moveLeft" /\ digitalX < 0
            \/ a = "moveRight" /\ digitalX > 0
            \/ a = "moveUp" /\ digitalY < 0
            \/ a = "moveDown" /\ digitalY > 0}

\* the actions updateMobileInput adds
MobileActions(jumpPressed, firePressed) ==
    {a \in GameAction :
        \/ a = "jump" /\ jumpPressed
        \/ a = "primaryFire" /\ firePressed}

\* the four readers: each one only calls currentActions.add
updateKeyboardInput(cur, keys) == cur \cup KeyboardActions(keys)
updateGamepadInputOverrides(cur, gp) ==
    IF gp.present THEN GamepadActions(gp) ELSE cur
updateGamepadInput(cur, gp) == cur \cup GamepadActions(gp)
updateVirtualJoystickInput(cur, has, force) == cur \cup JoystickActions(has, force)
updateMobileInput(cur, jumpPressed, firePressed) ==
    cur \cup MobileActions(jumpPressed, firePressed)

\* this.previousActions = new Set(this.currentActions): a copy of the current
\* set as it is before clear(), untouched by what update() then does to the
\* current set (cur: before the update, final: after it)
StorePreviousAliased(cur, final) == final
StorePrevious(cur, final) == cur

\* InputMapper.isActionActive / isActionJustPressed / getAxis
isActionActive(a) == a \in currentActions
isActionJustPressedIgnoresPrevious(a) == a \in currentActions
isActionJustPressed(a) == a \in currentActions /\ a \notin previousActions
getAxis ==
    [x |-> (IF isActionActive("moveRight") THEN 1 ELSE 0)
           - (IF isActionActive("moveLeft") THEN 1 ELSE 0),
     y |-> (IF isActionActive("moveDown") THEN 1 ELSE 0)
           - (IF isActionActive("moveUp") THEN 1 ELSE 0)]

\* ---- what the devices can do in the model ----
\* most keys held at once
MaxKeysDown == 2
\* key codes whose events are enumerated (KeyP is bound to nothing)
KeyCodes == {"ArrowUp", "KeyZ", "KeyP"}
\* gamepad snapshots polled by update(): none, or a pad with the stick left
\* past the deadzone, up inside the deadzone, X and start held
GamepadStates ==
    {NoGamepad,
     [present |-> TRUE, axisX |-> 0 - 50, axisY |-> 0 - 15, buttons |-> {2, 9}]}
\* joystick forces read by update()
JoystickForces ==
    {[forceX |-> 0, forceY |-> 0], [forceX |-> 50, forceY |-> 0 - 50]}

\* what setScene does to keysPressed: nothing (neither setScene nor
\* setupKeyboard touches the set)
setSceneKeys(keys) == keys

\* InputMapper.setScene(scene): setupKeyboard registers the listeners when the
\* scene has a keyboard (the previous scene's listeners went with that scene),
\* setupVirtualJoystick builds joystick and buttons on a touch device.
\* keysPressed and the mobile flags are left as they are.
SetScene(keyboardAvailable) ==
    /\ listening' = keyboardAvailable
    /\ hasJoystick' = (hasJoystick \/ touchDevice)
    /\ keysPressed' = setSceneKeys(keysPressed)
    /\ keysSinceAttach' = {}
    /\ UNCHANGED <<touchDevice, mobileJumpPressed, mobileFirePressed,
                   gamepad, joystickForce, currentActions, previousActions,
                   heldFrames, frame>>

\* the keydown listener: keysPressed.add(event.code)
KeyDownAddsAction(code) ==
    /\ listening
    /\ code \notin keysPressed
    /\ Cardinality(keysPressed) < MaxKeysDown
    /\ keysPressed' = keysPressed \cup {code}
    /\ keysSinceAttach' = keysSinceAttach \cup {code}
    /\ currentActions' = currentActions \cup KeyboardActions({code})
    /\ UNCHANGED <<touchDevice, listening, hasJoystick, mobileJumpPressed,
                   mobileFirePressed, gamepad, joystickForce,
                   previousActions, heldFrames, frame>>
KeyDown(code) ==
    /\ listening
    /\ code \notin keysPressed
    /\ Cardinality(keysPressed) < MaxKeysDown
    /\ keysPressed' = keysPressed \cup {code}
    /\ keysSinceAttach' = keysSinceAttach \cup {code}
    /\ UNCHANGED <<touchDevice, listening, hasJoystick, mobileJumpPressed,
                   mobileFirePressed, gamepad, joystickForce, currentActions,
                   previousActions, heldFrames, frame>>

\* the keyup listener: keysPressed.delete(event.code)
KeyUp(code) ==
    /\ listening
    /\ code \in keysPressed
    /\ keysPressed' = keysPressed \ {code}
    /\ keysSinceAttach' = keysSinceAttach \ {code}
    /\ UNCHANGED <<touchDevice, listening, hasJoystick, mobileJumpPressed,
                   mobileFirePressed, gamepad, joystickForce, currentActions,
                   previousActions, heldFrames, frame>>

\* jump button: pointerdown sets the flag, pointerup / pointerout clear it
JumpButton(down) ==
    /\ hasJoystick
    /\ mobileJumpPressed' = down
    /\ mobileJumpPressed' # mobileJumpPressed
    /\ UNCHANGED <<touchDevice, listening, hasJoystick, keysPressed,
                   mobileFirePressed, gamepad, joystickForce, currentActions,
                   previousActions, heldFrames, frame, keysSinceAttach>>

\* fire button: pointerdown sets the flag, pointerup / pointerout clear it
FireButton(down) ==
    /\ hasJoystick
    /\ mobileFirePressed' = down
    /\ mobileFirePressed' # mobileFirePressed
    /\ UNCHANGED <<touchDevice, listening, hasJoystick, keysPressed,
                   mobileJumpPressed, gamepad, joystickForce, currentActions,
                   previousActions, heldFrames, frame, keysSinceAttach>>

\* InputMapper.update() with the gamepad snapshot gp and joystick force polled
\* during the call
InputMapperUpdate(gp, force) ==
    LET c0 == {}
        c1 == updateKeyboardInput(c0, keysPressed)
        c2 == updateGamepadInput(c1, gp)
        c3 == updateVirtualJoystickInput(c2, hasJoystick, force)
        c4 == updateMobileInput(c3, mobileJumpPressed, mobileFirePressed)
    IN  /\ previousActions' = StorePrevious(currentActions, c4)
        /\ currentActions' = c4
        /\ gamepad' = gp
        /\ joystickForce' = force
        /\ heldFrames' = [a \in GameAction |->
                            IF a \notin c4 THEN 0
                            ELSE IF heldFrames[a] = 0 THEN 1 ELSE 2]
        /\ frame' = 1 - frame
        /\ UNCHANGED <<touchDevice, listening, hasJoystick, keysPressed,
                       mobileJumpPressed, mobileFirePressed, keysSinceAttach>>

\* InputMapper.destroy(): keys.clear(), currentActions.clear(),
\* previousActions.clear(). The keys map is never filled; keysPressed, the
\* mobile flags and the listeners are left as they are, so the mapper keeps
\* working and the next update() builds the current set from the devices again.
InputMapperDestroy ==
    /\ currentActions' = {}
    /\ previousActions' = {}
    /\ heldFrames' = [a \in GameAction |-> 0]
    /\ UNCHANGED <<touchDevice, listening, hasJoystick, keysPressed,
                   mobileJumpPressed, mobileFirePressed, gamepad, joystickForce,
                   frame, keysSinceAttach>>

\* ---- digitalizeAxis called on its own ----
\* widest analog magnitude enumerated, in hundredths (1.0)
MaxAxis == 100
AxisValues == (0 - MaxAxis)..MaxAxis
Deadzones == 0..MaxAxis

\* one call digitalizeAxis(axisValue, axisDeadzone)
Digitalize ==
    /\ ~axisDone
    /\ axisResult' = digitalizeAxis(axisValue, axisDeadzone)
    /\ axisDone' = TRUE
    /\ UNCHANGED <<axisValue, axisDeadzone>>

(***************************************************************************)
(*      StatusEffect / SoggyEffect / StatusEffectManager / Player speed    *)
(***************************************************************************)

\* StatusEffectType enum values
StatusEffectType == {"soggy"}

PLAYER_SPEED == 100
\* default duration of SoggyEffect and of Player.applySoggy
DefaultSoggyDuration == 300
\* StatusEffectConfig.duration of a permanent effect
Permanent == 0 - 1

\* ---- what the callers do in the model ----
\* most SoggyEffect objects constructed in one run
MaxEffects == 3
EffectIds == 1..MaxEffects
\* durations handed to applySoggy
Durations == {Permanent, 1, 2, DefaultSoggyDuration}
\* speeds handed to Player.setSpeed from outside the effect system
OtherSpeeds == {60}

\* originalSpeed * SPEED_MULTIPLIER with SPEED_MULTIPLIER = 1.5 (exact for the
\* even speeds that occur)
ScaleSpeed(speed) == (speed * 15) \div 10

\* new SoggyEffect(duration): StatusEffect constructor and field initialisers
NewSoggyEffect(id, duration) ==
    [id |-> id, type |-> "soggy", duration |-> duration,
     remainingFrames |-> duration, target |-> FALSE,
     originalSpeed |-> PLAYER_SPEED,
     age |-> 0]     \* history: update() calls this object has received

\* SoggyEffect.onApply: record the target's speed, then set speed * 1.5
SoggyOnApply(e, speed) ==
    IF ~e.target THEN [effect |-> e, speed |-> speed]
    ELSE [effect |-> [e EXCEPT !.originalSpeed = speed],
          speed |-> ScaleSpeed(speed)]

\* SoggyEffect.onRemove: the target's speed afterwards
SoggyOnRemoveDividesBack(e, speed) ==
    IF ~e.target THEN speed ELSE (speed * 10) \div 15
SoggyOnRemove(e, speed) ==
    IF ~e.target THEN speed ELSE e.originalSpeed

\* StatusEffect.update: count down while remainingFrames > 0, then onUpdate
\* (empty for SoggyEffect)
StatusEffectUpdate(e) ==
    [e EXCEPT !.remainingFrames = IF @ > 0 THEN @ - 1 ELSE @,
              !.age = IF e.duration = Permanent THEN 0 ELSE @ + 1]

\* StatusEffect.hasExpired
hasExpiredForgetsPermanent(e) == e.remainingFrames <= 0
hasExpired(e) == e.duration # Permanent /\ e.remainingFrames <= 0

\* The manager's calls act on a world record
\*   [active, speed, applied, removed, atApply, log]
\* (activeEffects, Player.currentSpeed and the hook history) so that the calls
\* they make in sequence compose.
World ==
    [active |-> activeEffects, speed |-> currentSpeed, applied |-> applyCalls,
     removed |-> removeCalls, atApply |-> speedAtApply, log |-> <<>>]

HookEntry(hook, e) ==
    [hook |-> hook, id |-> e.id, duration |-> e.duration, age |-> e.age]

\* StatusEffect.apply(target): this.target = target; this.onApply()
\* followed by activeEffects.set(type, effect)
StatusEffectApply(W, e) ==
    LET r == SoggyOnApply([e EXCEPT !.target = TRUE], W.speed)
    IN  [W EXCEPT !.active = [t \in DOMAIN W.active \cup {e.type} |->
                                 IF t = e.type THEN r.effect ELSE W.active[t]],
                  !.speed = r.speed,
                  !.applied[e.id] = @ + 1,
                  !.atApply[e.id] = W.speed,
                  !.log = Append(@, HookEntry("apply", e))]

\* StatusEffect.remove(): this.onRemove(); this.target = null
\* followed by activeEffects.delete(type)
StatusEffectRemove(W, e) ==
    [W EXCEPT !.active = [t \in DOMAIN W.active \ {e.type} |-> W.active[t]],
              !.speed = SoggyOnRemove(e, W.speed),
              !.removed[e.id] = @ + 1,
              !.log = Append(@, HookEntry("remove", e))]

\* StatusEffectManager.removeEffect(type)
removeEffect(W, type) ==
    IF type \in DOMAIN W.active THEN StatusEffectRemove(W, W.active[type]) ELSE W

\* StatusEffectManager.applyEffect(effect)
applyEffectKeepsOld(W, hasTarget, e) ==
    IF ~hasTarget THEN W ELSE StatusEffectApply(W, e)
applyEffectAppliesFirst(W, hasTarget, e) ==
    IF ~hasTarget THEN W
    ELSE IF e.type \in DOMAIN W.active
         THEN LET old == W.active[e.type]
                  W1 == StatusEffectApply(W, e)
                  W2 == [W1 EXCEPT !.speed = SoggyOnRemove(old, W1.speed),
                                   !.removed[old.id] = @ + 1,
                                   !.log = Append(@, HookEntry("remove", old))]
              IN  W2
         ELSE StatusEffectApply(W, e)
applyEffect(W, hasTarget, e) ==
    IF ~hasTarget THEN W
    ELSE LET W1 == IF e.type \in DOMAIN W.active THEN removeEffect(W, e.type) ELSE W
         IN  StatusEffectApply(W1, e)

\* expiredEffects.forEach(type => this.removeEffect(type))
RECURSIVE removeEffects(_, _)
removeEffects(W, types) ==
    IF types = {} THEN W
    ELSE LET t == CHOOSE x \in types : TRUE
         IN  removeEffects(removeEffect(W, t), types \ {t})

\* StatusEffectManager.update(): every effect's update(), the expired ones
\* collected during the sweep and removed after it
managerUpdate(W) ==
    LET swept == [t \in DOMAIN W.active |-> StatusEffectUpdate(W.active[t])]
        expiredEffects == {t \in DOMAIN swept : hasExpired(swept[t])}
    IN  removeEffects([W EXCEPT !.active = swept], expiredEffects)

\* StatusEffectManager.clearAll(): effect.remove() for each, then clear()
clearAllSkipsHooks(W) == [W EXCEPT !.active = <<>>]
clearAll(W) == [removeEffects(W, DOMAIN W.active) EXCEPT !.active = <<>>]

\* StatusEffectManager.destroy(): this.clearAll()
destroy(W) == clearAll(W)

\* the next state of the effect variables is the world W
Becomes(W) ==
    /\ activeEffects' = W.active
    /\ currentSpeed' = W.speed
    /\ applyCalls' = W.applied
    /\ removeCalls' = W.removed
    /\ speedAtApply' = W.atApply
    /\ hookLog' = W.log

\* Player constructor: statusEffectManager.setTarget(this)
SetTarget ==
    /\ ~target
    /\ target' = TRUE
    /\ effectCall' = [op |-> "setTarget", arg |-> 0]
    /\ Becomes(World)
    /\ UNCHANGED nextEffectId

\* Player.applySoggy(duration): applyEffect(new SoggyEffect(duration))
ApplySoggy(duration) ==
    /\ nextEffectId <= MaxEffects
    /\ Becomes(applyEffect(World, target, NewSoggyEffect(nextEffectId, duration)))
    /\ nextEffectId' = nextEffectId + 1
    /\ effectCall' = [op |-> "apply", arg |-> duration]
    /\ UNCHANGED target

\* StatusEffectManager.update(), called once per frame by Player.update
StatusUpdate ==
    /\ Becomes(managerUpdate(World))
    /\ effectCall' = [op |-> "update", arg |-> 0]
    /\ UNCHANGED <<target, nextEffectId>>

\* StatusEffectManager.removeEffect(type) called from outside
RemoveEffect(type) ==
    /\ Becomes(removeEffect(World, type))
    /\ effectCall' = [op |-> "remove", arg |-> 0]
    /\ UNCHANGED <<target, nextEffectId>>

\* StatusEffectManager.clearAll()
ClearAll ==
    /\ Becomes(clearAll(World))
    /\ effectCall' = [op |-> "clearAll", arg |-> 0]
    /\ UNCHANGED <<target, nextEffectId>>

\* StatusEffectManager.destroy()
Destroy ==
    /\ Becomes(destroy(World))
    /\ effectCall' = [op |-> "destroy", arg |-> 0]
    /\ UNCHANGED <<target, nextEffectId>>

\* Player.setSpeed(speed) called from outside the effect system
SetSpeed(speed) ==
    /\ currentSpeed' = speed
    /\ hookLog' = <<>>
    /\ effectCall' = [op |-> "setSpeed", arg |-> speed]
    /\ UNCHANGED <<target, activeEffects, nextEffectId, applyCalls, removeCalls,
                   speedAtApply>>

(***************************************************************************)
(*                       Player / scene update loop                        *)
(***************************************************************************)

COYOTE_TIME_FRAMES == 6
INPUT_BUFFER_FRAMES == 5

\* Player.update, "Update systems": weaponManager.update(), then
\* statusEffectManager.update(). A is the manager record, W the effect world,
\* log the components advanced so far in this frame.
updateSystemsStatusFirst(A, W, log) ==
    [arsenal |-> weaponsUpdate(A), world |-> managerUpdate(W),
     log |-> log \o <<"statusEffects", "weapons">>]
updateSystems(A, W, log) ==
    [arsenal |-> weaponsUpdate(A), world |-> managerUpdate(W),
     log |-> log \o <<"weapons", "statusEffects">>]

\* Player.update, coyote time and jump buffering, for a body that is on the
\* floor or not: the counters afterwards and the jump() calls made
updateJump(coyote, buffer, onFloor, jumpJustPressed) ==
    LET c1 == IF onFloor THEN COYOTE_TIME_FRAMES
              ELSE IF coyote > 0 THEN coyote - 1 ELSE coyote
        canJump == c1 > 0
        \* if (isActionJustPressed(JUMP)) canJump ? jump() : buffer the input
        pressJumps == jumpJustPressed /\ canJump
        c2 == IF pressJumps THEN 0 ELSE c1
        b2 == IF jumpJustPressed /\ ~canJump THEN INPUT_BUFFER_FRAMES ELSE buffer
        \* if (jumpBufferFrames > 0) canJump ? jump(), buffer = 0 : buffer--
        bufferJumps == b2 > 0 /\ canJump
        c3 == IF bufferJumps THEN 0 ELSE c2
        b3 == IF b2 > 0 THEN (IF canJump THEN 0 ELSE b2 - 1) ELSE b2
    IN  [coyote |-> c3, buffer |-> b3,
         jumps |-> (IF pressJumps THEN 1 ELSE 0) + (IF bufferJumps THEN 1 ELSE 0)]

\* Player.update, horizontal movement: the sprite's flipX for the axis read
updateFacing(flip, axisX) ==
    IF axisX < 0 THEN FALSE ELSE IF axisX > 0 THEN TRUE ELSE flip

\* Player.handleWeaponInput: const facingDirection = { x: flipX ? -1 : 1, y: 0 }
facingDirection(flip) == [x |-> IF flip THEN 0 - 1 ELSE 1, y |-> 0]

\* Player.handleWeaponInput on the input state st = getInputState(); a call
\* that throws ends the method
handleWeaponInput(A, st, flip) ==
    LET A1 == IF st.weaponNext THEN nextWeapon(A) ELSE A
        A2 == IF st.weaponPrevious /\ ~A1.threw THEN previousWeapon(A1) ELSE A1
    IN  IF (st.primaryFireJustPressed \/ st.primaryFire) /\ ~A2.threw
        THEN weaponsFire(A2, facingDirection(flip))
        ELSE A2

\* pressAge when no press is waiting
NoPress == 0 - 1

\* InputMapper.getInputState() (the fields Player reads)
getInputState ==
    [moveX |-> getAxis.x,
     jumpJustPressed |-> isActionJustPressed("jump"),
     primaryFire |-> isActionActive("primaryFire"),
     primaryFireJustPressed |-> isActionJustPressed("primaryFire"),
     weaponNext |-> isActionJustPressed("weaponNext"),
     weaponPrevious |-> isActionJustPressed("weaponPrev")]

\* Scene update(): inputMapper.update(), then player.update(), whose body is
\* on the floor or not. The player reads the input state the mapper has just
\* computed. A TypeError thrown inside handleWeaponInput (a switch or a fire
\* with no weapon to act on) ends the frame before updateAnimation.
SceneUpdate(gp, force, onFloor) ==
    /\ updatesLeft # 0
    /\ updatesLeft' = SpendUpdate(updatesLeft)
    /\ InputMapperUpdate(gp, force)
    /\ LET st == getInputState'
           sys == updateSystems(Arsenal, World, <<"inputMapper">>)
           j == updateJump(coyoteFrames, jumpBufferFrames, onFloor, st.jumpJustPressed)
           flip == updateFacing(flipX, st.moveX)
           A == handleWeaponInput(sys.arsenal, st, flip)
           \* the manager after the weapon switches of this frame
           switched == handleWeaponInput(sys.arsenal,
                                         [st EXCEPT !.primaryFire = FALSE,
                                                    !.primaryFireJustPressed = FALSE],
                                         flip)
           fireCalled == (st.primaryFireJustPressed \/ st.primaryFire) /\ ~switched.threw
       IN  /\ ArsenalBecomes(A)
           /\ weaponCall' = [op |-> "frame", weapon |-> A.current, result |-> A.result,
                             ticks |-> IF A.current = NoWeapon THEN NeverFired
                                       ELSE sinceFire[A.current],
                             threw |-> A.threw]
           /\ volleys' = volleys + Len(A.chip.launches) \div Len(spreadAngles)
           /\ volleys' <= MaxVolleys
           /\ Becomes(sys.world)
           /\ effectCall' = [op |-> "update", arg |-> 0]
           /\ coyoteFrames' = j.coyote
           /\ jumpBufferFrames' = j.buffer
           /\ jumpCalls' = j.jumps
           /\ flipX' = flip
           /\ frameLog' = sys.log \o <<"movement", "weaponInput">>
                                \o (IF A.threw THEN <<>> ELSE <<"animation">>)
           /\ airFrames' = IF onFloor THEN 0
                           ELSE Min(airFrames + 1, COYOTE_TIME_FRAMES + 1)
           /\ jumpedSinceFloor' = IF j.jumps > 0 THEN TRUE
                                  ELSE IF onFloor THEN FALSE ELSE jumpedSinceFloor
           /\ pressAge' = IF j.jumps > 0 THEN NoPress
                          ELSE IF st.jumpJustPressed THEN 0
                          ELSE IF pressAge = NoPress THEN NoPress
                          ELSE Min(pressAge + 1, INPUT_BUFFER_FRAMES + 1)
           /\ lastMoveX' = IF st.moveX # 0 THEN st.moveX ELSE lastMoveX
           /\ fireAttempt' = IF fireCalled THEN facingDirection(flip).x ELSE 0
    /\ UNCHANGED <<poolHits, target, nextEffectId>>

\* Player.reset(x, y): the sprite goes to the spawn position with velocity 0
\* and no tint, coyoteFrames = 0, jumpBufferFrames = 0. No press waits in the
\* buffer afterwards, and the grace period the body had is gone with it.
PlayerReset ==
    /\ coyoteFrames' = 0
    /\ jumpBufferFrames' = 0
    /\ pressAge' = NoPress
    /\ airFrames' = COYOTE_TIME_FRAMES + 1
    /\ UNCHANGED <<flipX, jumpCalls, frameLog, jumpedSinceFloor, lastMoveX, fireAttempt>>

(***************************************************************************)
(*                              AudioManager                               *)
(***************************************************************************)

\* keys handed to loadMusic and playMusic
MusicKeys == {"a", "b"}
\* most Howl objects loadMusic creates in one run
MaxHowls == 3
\* a Howl is known by the order of its creation
HowlIds == 1..MaxHowls
\* currentMusic = null, and music.get(key) of a key with no track
NoMusic == 0
\* most playMusic / stopMusic calls in one run
MaxAudioCalls == 4

\* The Howl of a track: play() and stop() start and stop it, fade() starts a
\* fade that ends later with one 'fade' event, and a once('fade') callback runs
\* at the next 'fade' event of the Howl it was registered on.
Jukebox == [music |-> music, howls |-> howls, current |-> currentMusic,
            playing |-> playing, fading |-> fading, listeners |-> fadeListeners]

\* AudioManager.loadMusic(key, src): a new Howl takes the key's place in the
\* map; a Howl that had the key before is neither stopped nor unloaded
loadMusic(J, key) ==
    [J EXCEPT !.howls = J.howls + 1, !.music[key] = J.howls + 1]

\* the callback playMusic registers: this.currentMusic?.stop()
StopCurrent(J) ==
    IF J.current = NoMusic THEN J ELSE [J EXCEPT !.playing[J.current] = FALSE]

\* the callback stopMusic registers: this.currentMusic?.stop(); this.currentMusic = null
StopAndClearCurrent(J) == [StopCurrent(J) EXCEPT !.current = NoMusic]

RunListener(J, l) == IF l = "stop" THEN StopCurrent(J) ELSE StopAndClearCurrent(J)

\* the 'fade' event of a track: the callbacks registered on it, in order
RECURSIVE RunListeners(_, _)
RunListeners(J, ls) ==
    IF ls = <<>> THEN J ELSE RunListeners(RunListener(J, Head(ls)), Tail(ls))

\* AudioManager.playMusic(key, fadeIn): a key the map has no track for is
\* answered with a warning and nothing else
playMusic(J, key, fadeIn) ==
    LET track == J.music[key] IN
    IF track = NoMusic THEN J ELSE
    LET J1 == IF J.current # NoMusic /\ J.current # track
              THEN [J EXCEPT !.fading[J.current] = TRUE,
                             !.listeners[J.current] = Append(@, "stop")]
              ELSE J
    IN  [J1 EXCEPT !.current = track,
                   !.playing[track] = TRUE,
                   !.fading[track] = IF fadeIn THEN TRUE ELSE @]

\* AudioManager.stopMusic(fadeOut)
stopMusic(J, fadeOut) ==
    IF J.current = NoMusic THEN J
    ELSE IF fadeOut
         THEN [J EXCEPT !.fading[J.current] = TRUE,
                        !.listeners[J.current] = Append(@, "stopAndClear")]
         ELSE [J EXCEPT !.playing[J.current] = FALSE, !.current = NoMusic]

\* AudioManager.destroy: every track of the map is unloaded, which stops it,
\* the map is emptied and currentMusic = null. The callbacks waiting for a
\* 'fade' event are not removed; whether an unloaded Howl still emits the
\* event is left open. A Howl loadMusic has replaced is not in the map and is
\* left as it is.
destroyAudio(J) ==
    [J EXCEPT !.playing = [h \in HowlIds |->
                                IF \E k \in MusicKeys : J.music[k] = h
                                THEN FALSE ELSE J.playing[h]],
              !.music = [k \in MusicKeys |-> NoMusic],
              !.current = NoMusic]

\* the next state of the audio manager is the record J
JukeboxBecomes(J) ==
    /\ music' = J.music
    /\ howls' = J.howls
    /\ currentMusic' = J.current
    /\ playing' = J.playing
    /\ fading' = J.fading
    /\ fadeListeners' = J.listeners

LoadMusic(key) ==
    /\ howls < MaxHowls
    /\ JukeboxBecomes(loadMusic(Jukebox, key))
    /\ audioCall' = [op |-> "loadMusic", howl |-> howls + 1]
    /\ UNCHANGED audioCalls

PlayMusic(key, fadeIn) ==
    /\ audioCalls < MaxAudioCalls
    /\ audioCalls' = audioCalls + 1
    /\ JukeboxBecomes(playMusic(Jukebox, key, fadeIn))
    /\ audioCall' = [op |-> "playMusic", howl |-> music[key]]

StopMusic(fadeOut) ==
    /\ audioCalls < MaxAudioCalls
    /\ audioCalls' = audioCalls + 1
    /\ JukeboxBecomes(stopMusic(Jukebox, fadeOut))
    /\ audioCall' = [op |-> "stopMusic", howl |-> currentMusic]

AudioDestroy ==
    /\ JukeboxBecomes(destroyAudio(Jukebox))
    /\ audioCall' = [op |-> "destroy", howl |-> currentMusic]
    /\ UNCHANGED audioCalls

\* a fade of the Howl ends: its 'fade' event runs the callbacks waiting on it
FadeEnd(h) ==
    /\ fading[h]
    /\ JukeboxBecomes(RunListeners([Jukebox EXCEPT !.fading[h] = FALSE,
                                                   !.listeners[h] = <<>>],
                                   fadeListeners[h]))
    /\ audioCall' = [op |-> "fade", howl |-> h]
    /\ UNCHANGED audioCalls

(***************************************************************************)
(*                                  Enemy                                  *)
(***************************************************************************)

\* config.damage and config.saturationPerHit (in halves) of the four weapons
WeaponDamage(w) ==
    CASE w = "polonypummeler" -> 10
      [] w = "chipshotgun"    -> 5
      [] w = "calamariwhip"   -> 3
      [] w = "masalaflamer"   -> 1
SaturationPerHit(w) ==
    CASE w = "polonypummeler" -> 10
      [] w = "chipshotgun"    -> 6
      [] w = "calamariwhip"   -> 4
      [] w = "masalaflamer"   -> 1

\* ---- the EnemyConfig of the enemy in the model ----
EnemyHealth == 30
\* maxSaturation, in halves (5.0)
EnemyMaxSaturation == 10
EnemySpeed == 40

\* Enemy.applySoggy on the enemy record
applySoggy(E) ==
    [E EXCEPT !.isSoggy = TRUE, !.tint = "blue", !.speed = E.speed \div 2,
              !.saturation = 0]

\* Enemy.takeDamage(damage, saturation) on the enemy record
takeDamage(E, damage, sat) ==
    LET E1 == [E EXCEPT !.health = @ - damage, !.saturation = @ + sat,
                        !.tint = "white", !.timers = @ + 1]
        E2 == IF ~E1.isSoggy /\ E1.saturation >= EnemyMaxSaturation
              THEN applySoggy(E1) ELSE E1
    IN  [E2 EXCEPT !.destroyed = E2.health <= 0]

\* the callback Enemy.takeDamage hands to delayedCall(100, ...):
\* this.setTint(this.isSoggy ? 0x8888ff : 0xff0000)
flashCallback(E) == [E EXCEPT !.tint = IF E.isSoggy THEN "blue" ELSE "red"]

\* Enemy.getSaturation / getIsSoggy
getSaturation == saturation
getIsSoggy == isSoggy

\* a hit of weapon w on the enemy: takeDamage(config.damage, config.saturationPerHit).
\* A destroyed enemy has left its scene and takes no more hits.
TakeDamage(w) ==
    /\ ~enemyDestroyed
    /\ LET E == takeDamage([health |-> enemyHealth, saturation |-> saturation,
                            isSoggy |-> isSoggy, speed |-> enemySpeed,
                            destroyed |-> enemyDestroyed, tint |-> enemyTint,
                            timers |-> flashTimers],
                           WeaponDamage(w), SaturationPerHit(w))
       IN  /\ enemyHealth' = E.health
           /\ saturation' = E.saturation
           /\ isSoggy' = E.isSoggy
           /\ enemySpeed' = E.speed
           /\ enemyDestroyed' = E.destroyed
           /\ enemyTint' = E.tint
           /\ flashTimers' = E.timers
    /\ enemyCall' = [op |-> "takeDamage", weapon |-> w, before |-> saturation,
                     wasSoggy |-> isSoggy]

\* the scene clock runs one pending flash callback of the enemy; destroy() on
\* the sprite does not remove the callbacks already scheduled
FlashExpire ==
    /\ flashTimers > 0
    /\ flashTimers' = flashTimers - 1
    /\ enemyTint' = flashCallback([isSoggy |-> isSoggy, tint |-> enemyTint]).tint
    /\ enemyCall' = [op |-> "flash", weapon |-> enemyCall.weapon, before |-> saturation,
                     wasSoggy |-> isSoggy]
    /\ UNCHANGED <<enemyHealth, saturation, isSoggy, enemySpeed, enemyDestroyed>>

EnemyInitValues ==
    /\ enemyHealth = EnemyHealth
    /\ saturation = 0
    /\ isSoggy = FALSE
    /\ enemySpeed = 2 * EnemySpeed
    /\ enemyDestroyed = FALSE
    /\ enemyTint = "red"
    /\ flashTimers = 0
    /\ enemyCall = [op |-> "new", weapon |-> "polonypummeler", before |-> 0,
                    wasSoggy |-> FALSE]

VisualInitValues ==
    /\ visWeapon = "polonypummeler"
    /\ visCooldown = 0
    /\ visual = 0
    /\ visCreated = 0
    /\ visDestroys = <<>>
    /\ visTimers = <<>>
    /\ visCall = [op |-> "new", fire |-> 0]

AudioInitValues ==
    /\ music = [k \in MusicKeys |-> NoMusic]
    /\ howls = 0
    /\ currentMusic = NoMusic
    /\ playing = [h \in HowlIds |-> FALSE]
    /\ fading = [h \in HowlIds |-> FALSE]
    /\ fadeListeners = [h \in HowlIds |-> <<>>]
    /\ audioCalls = 0
    /\ audioCall = [op |-> "new", howl |-> NoMusic]

WeaponInitValues ==
    /\ cooldownFrames = [w \in WeaponTypes |-> 0]
    /\ owner = [w \in WeaponTypes |-> FALSE]
    /\ weapons = WeaponTypes
    /\ currentWeapon = weaponOrder[currentIndex + 1]
    /\ pool = <<>>
    /\ projectiles = {}
    /\ isFiring = FALSE
    /\ flameCone = FALSE
    /\ launchLog = <<>>
    /\ volleys = 0
    /\ poolHits = 0
    /\ weaponCall = [op |-> "new", weapon |-> CurrentWeapon, result |-> FALSE,
                     ticks |-> NeverFired, threw |-> FALSE]
    /\ onFireLog = <<>>
    /\ sinceFire = [w \in WeaponTypes |-> NeverFired]

\* the weapons after new Player(...): the constructor takes the manager from
\* the registry and calls weaponManager.setOwner(this)
PlayerWeaponInitValues ==
    /\ currentWeapon = weaponOrder[currentIndex + 1]
    /\ cooldownFrames = [w \in WeaponTypes |-> 0]
    /\ owner = [w \in WeaponTypes |-> TRUE]
    /\ weapons = WeaponTypes
    /\ pool = <<>>
    /\ projectiles = {}
    /\ isFiring = FALSE
    /\ flameCone = FALSE
    /\ launchLog = <<>>
    /\ volleys = 0
    /\ poolHits = 0
    /\ weaponCall = [op |-> "setOwner", weapon |-> currentWeapon, result |-> FALSE,
                     ticks |-> NeverFired, threw |-> FALSE]
    /\ onFireLog = <<>>
    /\ sinceFire = [w \in WeaponTypes |-> NeverFired]

InputInitValues ==
    /\ listening = FALSE
    /\ hasJoystick = FALSE
    /\ keysPressed = {}
    /\ mobileJumpPressed = FALSE
    /\ mobileFirePressed = FALSE
    /\ gamepad = NoGamepad
    /\ joystickForce = [forceX |-> 0, forceY |-> 0]
    /\ currentActions = {}
    /\ previousActions = {}
    /\ heldFrames = [a \in GameAction |-> 0]
    /\ frame = 0
    /\ keysSinceAttach = {}

PlayerInitValues ==
    /\ coyoteFrames = 0
    /\ jumpBufferFrames = 0
    /\ flipX = FALSE
    /\ jumpCalls = 0
    /\ frameLog = <<>>
    /\ airFrames = COYOTE_TIME_FRAMES + 1
    /\ jumpedSinceFloor = FALSE
    /\ pressAge = NoPress
    /\ lastMoveX = 0
    /\ fireAttempt = 0

AxisInitValues ==
    /\ axisValue = 0
    /\ axisDeadzone = INPUT_DEADZONE
    /\ axisResult = 0
    /\ axisDone = FALSE

EffectInitValues ==
    /\ activeEffects = <<>>
    /\ currentSpeed = PLAYER_SPEED
    /\ nextEffectId = 1
    /\ applyCalls = [i \in EffectIds |-> 0]
    /\ removeCalls = [i \in EffectIds |-> 0]
    /\ speedAtApply = [i \in EffectIds |-> 0]
    /\ hookLog = <<>>
    /\ effectCall = [op |-> "new", arg |-> 0]

\* One weapon manager whose selection is any of the four weapons; the owner is
\* attached by the Player constructor, then frames update and fire.
InitWeapon ==
    /\ currentIndex \in 0..(Len(weaponOrder) - 1)
    /\ WeaponInitValues
    /\ updatesLeft = Unbounded
    /\ touchDevice = FALSE
    /\ InputInitValues
    /\ target = FALSE
    /\ EffectInitValues
    /\ AudioInitValues
    /\ VisualInitValues
    /\ PlayerInitValues
    /\ AxisInitValues
    /\ EnemyInitValues

WeaponStep ==
    \/ WeaponManagerSetOwner /\ UNCHANGED <<inputVars, effectVars, axisVars, playerVars, enemyVars, visualVars, audioVars>>
    \/ WeaponManagerUpdate /\ UNCHANGED <<inputVars, effectVars, axisVars, playerVars, enemyVars, visualVars, audioVars>>
    \/ \E dir \in Directions : WeaponManagerFire(dir) /\ UNCHANGED <<inputVars, effectVars, axisVars, playerVars, enemyVars, visualVars, audioVars>>
    \/ WeaponManagerDestroy /\ UNCHANGED <<inputVars, effectVars, axisVars, playerVars, enemyVars, visualVars, audioVars>>
    \/ StopFiring /\ UNCHANGED <<inputVars, effectVars, axisVars, playerVars, enemyVars, visualVars, audioVars>>

SpecWeapon == InitWeapon /\ [][WeaponStep]_vars

\* A weapon manager from its construction: the owner is attached, weapons are
\* switched and fired, and the manager is updated a bounded number of times.
MaxManagerUpdates == 3

InitManager ==
    /\ currentIndex = 0
    /\ WeaponInitValues
    /\ updatesLeft = MaxManagerUpdates
    /\ touchDevice = FALSE
    /\ InputInitValues
    /\ target = FALSE
    /\ EffectInitValues
    /\ AudioInitValues
    /\ VisualInitValues
    /\ PlayerInitValues
    /\ AxisInitValues
    /\ EnemyInitValues

ManagerStep ==
    \/ WeaponManagerSetOwner /\ UNCHANGED <<inputVars, effectVars, axisVars, playerVars, enemyVars, visualVars, audioVars>>
    \/ WeaponManagerUpdate /\ UNCHANGED <<inputVars, effectVars, axisVars, playerVars, enemyVars, visualVars, audioVars>>
    \/ \E dir \in Directions :
            WeaponManagerFire(dir) /\ UNCHANGED <<inputVars, effectVars, axisVars, playerVars, enemyVars, visualVars, audioVars>>
    \/ NextWeapon /\ UNCHANGED <<inputVars, effectVars, axisVars, playerVars, enemyVars, visualVars, audioVars>>
    \/ PreviousWeapon /\ UNCHANGED <<inputVars, effectVars, axisVars, playerVars, enemyVars, visualVars, audioVars>>
    \/ WeaponManagerDestroy /\ UNCHANGED <<inputVars, effectVars, axisVars, playerVars, enemyVars, visualVars, audioVars>>
    \/ StopFiring /\ UNCHANGED <<inputVars, effectVars, axisVars, playerVars, enemyVars, visualVars, audioVars>>

SpecManager == InitManager /\ [][ManagerStep]_vars

\* A gameplay scene with its constructed Player (owner and target set) on a
\* page with a keyboard: key events arrive between frames and the scene's
\* update() runs a bounded number of frames.
MaxFrames == 4
\* key codes whose events are enumerated: fire, previous weapon, next weapon
FrameKeyCodes == {"KeyZ", "KeyQ", "KeyE"}

InitFrame ==
    /\ currentIndex = 0
    /\ PlayerWeaponInitValues
    /\ updatesLeft = MaxFrames
    /\ touchDevice = FALSE
    /\ listening = TRUE
    /\ hasJoystick = FALSE
    /\ keysPressed = {}
    /\ mobileJumpPressed = FALSE
    /\ mobileFirePressed = FALSE
    /\ gamepad = NoGamepad
    /\ joystickForce = [forceX |-> 0, forceY |-> 0]
    /\ currentActions = {}
    /\ previousActions = {}
    /\ heldFrames = [a \in GameAction |-> 0]
    /\ frame = 0
    /\ keysSinceAttach = {}
    /\ target = TRUE
    /\ EffectInitValues
    /\ AudioInitValues
    /\ VisualInitValues
    /\ PlayerInitValues
    /\ AxisInitValues
    /\ EnemyInitValues

FrameStep ==
    \/ \E code \in FrameKeyCodes :
            KeyDown(code) /\ UNCHANGED <<weaponVars, effectVars, axisVars, playerVars, enemyVars, visualVars, audioVars>>
    \/ \E code \in FrameKeyCodes :
            KeyUp(code) /\ UNCHANGED <<weaponVars, effectVars, axisVars, playerVars, enemyVars, visualVars, audioVars>>
    \/ \E onFloor \in BOOLEAN :
            SceneUpdate(NoGamepad, [forceX |-> 0, forceY |-> 0], onFloor)
            /\ UNCHANGED <<axisVars, enemyVars, visualVars, audioVars>>

SpecFrame == InitFrame /\ [][FrameStep]_vars

\* One enemy from its construction, hit by the four weapons in any order
\* until it is destroyed.
InitEnemy ==
    /\ EnemyInitValues
    /\ currentIndex = 0
    /\ WeaponInitValues
    /\ updatesLeft = Unbounded
    /\ touchDevice = FALSE
    /\ InputInitValues
    /\ target = FALSE
    /\ EffectInitValues
    /\ AudioInitValues
    /\ VisualInitValues
    /\ PlayerInitValues
    /\ AxisInitValues

EnemyStep ==
    \/ \E w \in WeaponTypes :
            TakeDamage(w)
            /\ UNCHANGED <<weaponVars, inputVars, effectVars, axisVars, playerVars, visualVars, audioVars>>
    \/ FlashExpire
            /\ UNCHANGED <<weaponVars, inputVars, effectVars, axisVars, playerVars, visualVars, audioVars>>

SpecEnemy == InitEnemy /\ [][EnemyStep]_vars

\* The chip shotgun of a constructed Player with its projectile pool: onFire
\* is called at any rate, the weapon is updated and projectiles are deactivated
\* from outside.
InitPool ==
    /\ currentIndex = 1
    /\ currentWeapon = weaponOrder[currentIndex + 1]
    /\ cooldownFrames = [w \in WeaponTypes |-> 0]
    /\ owner = [w \in WeaponTypes |-> TRUE]
    /\ weapons = WeaponTypes
    /\ pool = <<>>
    /\ projectiles = {}
    /\ isFiring = FALSE
    /\ flameCone = FALSE
    /\ launchLog = <<>>
    /\ volleys = 0
    /\ updatesLeft = MaxPoolUpdates
    /\ poolHits = 0
    /\ weaponCall = [op |-> "new", weapon |-> "chipshotgun", result |-> FALSE,
                     ticks |-> 0, threw |-> FALSE]
    /\ onFireLog = <<>>
    /\ sinceFire = [w \in WeaponTypes |-> NeverFired]
    /\ touchDevice = FALSE
    /\ InputInitValues
    /\ target = FALSE
    /\ EffectInitValues
    /\ AudioInitValues
    /\ VisualInitValues
    /\ PlayerInitValues
    /\ AxisInitValues
    /\ EnemyInitValues

PoolStep ==
    \/ \E dir \in Directions : PoolOnFire(dir) /\ UNCHANGED <<inputVars, effectVars, axisVars, playerVars, enemyVars, visualVars, audioVars>>
    \/ PoolUpdate /\ UNCHANGED <<inputVars, effectVars, axisVars, playerVars, enemyVars, visualVars, audioVars>>
    \/ \E i \in 1..ChipPoolSize : PoolDeactivate(i) /\ UNCHANGED <<inputVars, effectVars, axisVars, playerVars, enemyVars, visualVars, audioVars>>
    \/ PoolDestroy /\ UNCHANGED <<inputVars, effectVars, axisVars, playerVars, enemyVars, visualVars, audioVars>>

SpecPool == InitPool /\ [][PoolStep]_vars

\* The input mapper of one page (touch-capable or not): scenes attach, device
\* events arrive between frames, update() runs once per frame.
InitInput ==
    /\ touchDevice \in BOOLEAN
    /\ InputInitValues
    /\ currentIndex = 0
    /\ WeaponInitValues
    /\ updatesLeft = Unbounded
    /\ target = FALSE
    /\ EffectInitValues
    /\ AudioInitValues
    /\ VisualInitValues
    /\ PlayerInitValues
    /\ AxisInitValues
    /\ EnemyInitValues

InputStep ==
    \/ \E kb \in BOOLEAN : SetScene(kb) /\ UNCHANGED <<weaponVars, effectVars, axisVars, playerVars, enemyVars, visualVars, audioVars>>
    \/ \E code \in KeyCodes : KeyDown(code) /\ UNCHANGED <<weaponVars, effectVars, axisVars, playerVars, enemyVars, visualVars, audioVars>>
    \/ \E code \in KeyCodes : KeyUp(code) /\ UNCHANGED <<weaponVars, effectVars, axisVars, playerVars, enemyVars, visualVars, audioVars>>
    \/ \E down \in BOOLEAN : JumpButton(down) /\ UNCHANGED <<weaponVars, effectVars, axisVars, playerVars, enemyVars, visualVars, audioVars>>
    \/ \E down \in BOOLEAN : FireButton(down) /\ UNCHANGED <<weaponVars, effectVars, axisVars, playerVars, enemyVars, visualVars, audioVars>>
    \/ \E gp \in GamepadStates, force \in JoystickForces :
            /\ (~hasJoystick => force = [forceX |-> 0, forceY |-> 0])
            /\ InputMapperUpdate(gp, force)
            /\ UNCHANGED <<weaponVars, effectVars, axisVars, playerVars, enemyVars, visualVars, audioVars>>
    \/ InputMapperDestroy /\ UNCHANGED <<weaponVars, effectVars, axisVars, playerVars, enemyVars, visualVars, audioVars>>

SpecInput == InitInput /\ [][InputStep]_vars

\* A status-effect manager from its construction: the Player constructor sets
\* the target, effects are applied, updated, removed and cleared, and the
\* player's speed may also be set from outside.
InitEffects ==
    /\ target = FALSE
    /\ EffectInitValues
    /\ AudioInitValues
    /\ VisualInitValues
    /\ PlayerInitValues
    /\ AxisInitValues
    /\ EnemyInitValues
    /\ currentIndex = 0
    /\ WeaponInitValues
    /\ updatesLeft = Unbounded
    /\ touchDevice = FALSE
    /\ InputInitValues

EffectsStep ==
    \/ SetTarget /\ UNCHANGED <<weaponVars, inputVars, axisVars, playerVars, enemyVars, visualVars, audioVars>>
    \/ \E d \in Durations : ApplySoggy(d) /\ UNCHANGED <<weaponVars, inputVars, axisVars, playerVars, enemyVars, visualVars, audioVars>>
    \/ StatusUpdate /\ UNCHANGED <<weaponVars, inputVars, axisVars, playerVars, enemyVars, visualVars, audioVars>>
    \/ \E t \in StatusEffectType : RemoveEffect(t) /\ UNCHANGED <<weaponVars, inputVars, axisVars, playerVars, enemyVars, visualVars, audioVars>>
    \/ ClearAll /\ UNCHANGED <<weaponVars, inputVars, axisVars, playerVars, enemyVars, visualVars, audioVars>>
    \/ Destroy /\ UNCHANGED <<weaponVars, inputVars, axisVars, playerVars, enemyVars, visualVars, audioVars>>
    \/ \E s \in OtherSpeeds \cup {PLAYER_SPEED} :
            SetSpeed(s) /\ UNCHANGED <<weaponVars, inputVars, axisVars, playerVars, enemyVars, visualVars, audioVars>>

SpecEffects == InitEffects /\ [][EffectsStep]_vars

\* A constructed Player (target set, speed PLAYER_SPEED) that only receives
\* applySoggy and update calls.
InitSoggy ==
    /\ target = TRUE
    /\ EffectInitValues
    /\ AudioInitValues
    /\ VisualInitValues
    /\ PlayerInitValues
    /\ AxisInitValues
    /\ EnemyInitValues
    /\ currentIndex = 0
    /\ WeaponInitValues
    /\ updatesLeft = Unbounded
    /\ touchDevice = FALSE
    /\ InputInitValues

SoggyStep ==
    \/ \E d \in Durations : ApplySoggy(d) /\ UNCHANGED <<weaponVars, inputVars, axisVars, playerVars, enemyVars, visualVars, audioVars>>
    \/ StatusUpdate /\ UNCHANGED <<weaponVars, inputVars, axisVars, playerVars, enemyVars, visualVars, audioVars>>

SpecSoggy == InitSoggy /\ [][SoggyStep]_vars

\* digitalizeAxis called once on a value and a deadzone of the analog range
InitAxis ==
    /\ axisValue \in AxisValues
    /\ axisDeadzone \in Deadzones
    /\ axisResult = 0
    /\ axisDone = FALSE
    /\ currentIndex = 0
    /\ WeaponInitValues
    /\ updatesLeft = Unbounded
    /\ touchDevice = FALSE
    /\ InputInitValues
    /\ target = FALSE
    /\ EffectInitValues
    /\ AudioInitValues
    /\ VisualInitValues
    /\ PlayerInitValues
    /\ EnemyInitValues

AxisStep ==
    Digitalize /\ UNCHANGED <<weaponVars, inputVars, effectVars, playerVars, enemyVars, visualVars, audioVars>>

SpecAxis == InitAxis /\ [][AxisStep]_vars

\* One melee weapon or one whip with its owner attached: it is fired and
\* updated, the clock runs its callbacks, and it can be destroyed.
InitVisual ==
    /\ visWeapon \in VisualWeapons
    /\ visCooldown = 0
    /\ visual = 0
    /\ visCreated = 0
    /\ visDestroys = <<>>
    /\ visTimers = <<>>
    /\ visCall = [op |-> "new", fire |-> 0]
    /\ currentIndex = 0
    /\ WeaponInitValues
    /\ updatesLeft = Unbounded
    /\ touchDevice = FALSE
    /\ InputInitValues
    /\ target = FALSE
    /\ EffectInitValues
    /\ AudioInitValues
    /\ PlayerInitValues
    /\ AxisInitValues
    /\ EnemyInitValues

VisualStep ==
    \/ \E dir \in Directions : VisualFire(dir) /\ UNCHANGED <<weaponVars, inputVars, effectVars, axisVars, playerVars, enemyVars, audioVars>>
    \/ VisualUpdate /\ UNCHANGED <<weaponVars, inputVars, effectVars, axisVars, playerVars, enemyVars, audioVars>>
    \/ VisualExpire /\ UNCHANGED <<weaponVars, inputVars, effectVars, axisVars, playerVars, enemyVars, audioVars>>
    \/ VisualDestroy /\ UNCHANGED <<weaponVars, inputVars, effectVars, axisVars, playerVars, enemyVars, audioVars>>

SpecVisual == InitVisual /\ [][VisualStep]_vars

\* The player of a running scene with only the jump key in use: the key goes
\* down and up between frames, and in every frame the body is on the floor or
\* not.
JumpKeyCodes == {"Space"}

InitJump ==
    /\ currentIndex = 0
    /\ PlayerWeaponInitValues
    /\ updatesLeft = Unbounded
    /\ touchDevice = FALSE
    /\ listening = TRUE
    /\ hasJoystick = FALSE
    /\ keysPressed = {}
    /\ mobileJumpPressed = FALSE
    /\ mobileFirePressed = FALSE
    /\ gamepad = NoGamepad
    /\ joystickForce = [forceX |-> 0, forceY |-> 0]
    /\ currentActions = {}
    /\ previousActions = {}
    /\ heldFrames = [a \in GameAction |-> 0]
    /\ frame = 0
    /\ keysSinceAttach = {}
    /\ target = TRUE
    /\ EffectInitValues
    /\ AudioInitValues
    /\ VisualInitValues
    /\ PlayerInitValues
    /\ AxisInitValues
    /\ EnemyInitValues

JumpStep ==
    \/ \E code \in JumpKeyCodes :
            KeyDown(code) /\ UNCHANGED <<weaponVars, effectVars, axisVars, playerVars, enemyVars, visualVars, audioVars>>
    \/ \E code \in JumpKeyCodes :
            KeyUp(code) /\ UNCHANGED <<weaponVars, effectVars, axisVars, playerVars, enemyVars, visualVars, audioVars>>
    \/ \E onFloor \in BOOLEAN :
            SceneUpdate(NoGamepad, [forceX |-> 0, forceY |-> 0], onFloor)
            /\ UNCHANGED <<axisVars, enemyVars, visualVars, audioVars>>
    \/ PlayerReset /\ UNCHANGED <<weaponVars, inputVars, effectVars, axisVars, enemyVars, visualVars, audioVars>>

SpecJump == InitJump /\ [][JumpStep]_vars

\* An audio manager with two music tracks loaded: music is played and stopped,
\* and fades end.
InitAudio ==
    /\ AudioInitValues
    /\ currentIndex = 0
    /\ WeaponInitValues
    /\ updatesLeft = Unbounded
    /\ touchDevice = FALSE
    /\ InputInitValues
    /\ target = FALSE
    /\ EffectInitValues
    /\ VisualInitValues
    /\ PlayerInitValues
    /\ AxisInitValues
    /\ EnemyInitValues

AudioStep ==
    \/ \E key \in MusicKeys, fadeIn \in BOOLEAN :
            PlayMusic(key, fadeIn) /\ UNCHANGED <<weaponVars, inputVars, effectVars, axisVars, playerVars, enemyVars, visualVars>>
    \/ \E fadeOut \in BOOLEAN :
            StopMusic(fadeOut) /\ UNCHANGED <<weaponVars, inputVars, effectVars, axisVars, playerVars, enemyVars, visualVars>>
    \/ \E h \in HowlIds :
            FadeEnd(h) /\ UNCHANGED <<weaponVars, inputVars, effectVars, axisVars, playerVars, enemyVars, visualVars>>
    \/ \E key \in MusicKeys :
            LoadMusic(key) /\ UNCHANGED <<weaponVars, inputVars, effectVars, axisVars, playerVars, enemyVars, visualVars>>
    \/ AudioDestroy /\ UNCHANGED <<weaponVars, inputVars, effectVars, axisVars, playerVars, enemyVars, visualVars>>

SpecAudio == InitAudio /\ [][AudioStep]_vars

\* The player of a running scene with the move and fire keys in use, for a few
\* frames.
FacingKeyCodes == {"ArrowLeft", "ArrowRight", "KeyZ"}

InitFacing ==
    /\ currentIndex = 0
    /\ PlayerWeaponInitValues
    /\ updatesLeft = MaxFrames
    /\ touchDevice = FALSE
    /\ listening = TRUE
    /\ hasJoystick = FALSE
    /\ keysPressed = {}
    /\ mobileJumpPressed = FALSE
    /\ mobileFirePressed = FALSE
    /\ gamepad = NoGamepad
    /\ joystickForce = [forceX |-> 0, forceY |-> 0]
    /\ currentActions = {}
    /\ previousActions = {}
    /\ heldFrames = [a \in GameAction |-> 0]
    /\ frame = 0
    /\ keysSinceAttach = {}
    /\ target = TRUE
    /\ EffectInitValues
    /\ AudioInitValues
    /\ VisualInitValues
    /\ PlayerInitValues
    /\ AxisInitValues
    /\ EnemyInitValues

FacingStep ==
    \/ \E code \in FacingKeyCodes :
            KeyDown(code) /\ UNCHANGED <<weaponVars, effectVars, axisVars, playerVars, enemyVars, visualVars, audioVars>>
    \/ \E code \in FacingKeyCodes :
            KeyUp(code) /\ UNCHANGED <<weaponVars, effectVars, axisVars, playerVars, enemyVars, visualVars, audioVars>>
    \/ \E onFloor \in BOOLEAN :
            SceneUpdate(NoGamepad, [forceX |-> 0, forceY |-> 0], onFloor)
            /\ UNCHANGED <<axisVars, enemyVars, visualVars, audioVars>>

SpecFacing == InitFacing /\ [][FacingStep]_vars

(***************************************************************************)
(*                    Properties of WeaponBase (C1 - C3)                   *)
(***************************************************************************)

\* a step that is a call of fire: every other call stamps another op
\* the manager holds its four weapons: destroy() has not emptied the map
HoldsWeapons == weapons = WeaponTypes

\* a step in which WeaponManager.fire has called fire on the weapon it holds
FireStep == weaponCall'.op = "fire" /\ ~weaponCall'.threw /\ vars' # vars
\* a step that is a call of WeaponManager.update: update() runs on each weapon
\* in the manager's map
WeaponUpdateStep == weaponCall'.op = "update" /\ vars' # vars

\* C1: fire returns false and changes nothing (cooldown unchanged, onFire not
\* invoked) whenever cooldown > 0 or no owner is attached; otherwise it invokes
\* the weapon's onFire exactly once, sets the cooldown to exactly the configured
\* fireRate and returns true.
C1_FireContract ==
    [][FireStep =>
        LET w == weaponCall'.weapon IN
        /\ w = currentWeapon
        /\ HoldsWeapons => w = CurrentWeapon
        /\ owner' = owner /\ currentIndex' = currentIndex
        /\ \A o \in WeaponTypes \ {w} : cooldownFrames'[o] = cooldownFrames[o]
        /\ IF cooldownFrames[w] > 0 \/ ~owner[w]
           THEN /\ weaponCall'.result = FALSE
                /\ cooldownFrames'[w] = cooldownFrames[w]
                /\ onFireLog' = <<>>
           ELSE /\ weaponCall'.result = TRUE
                /\ Len(onFireLog') = 1
                /\ onFireLog'[1].weapon = w
                /\ cooldownFrames'[w] = FireRate(w)]_vars

\* C1 witness: a fire that was refused because the weapon was cooling down
C1_Witness ==
    /\ weaponCall.op = "fire" /\ ~weaponCall.result
    /\ owner[weaponCall.weapon] /\ cooldownFrames[weaponCall.weapon] > 0
    /\ onFireLog = <<>>

\* C2: every update() decreases the cooldown by exactly 1 while it is > 0 and
\* leaves it at 0 otherwise; in every reachable state the cooldown is an
\* integer between 0 and the configured fireRate.
C2_CooldownRange ==
    /\ [](\A w \in WeaponTypes : cooldownFrames[w] \in 0..FireRate(w))
    /\ [][WeaponUpdateStep =>
            \A w \in weapons :
                cooldownFrames'[w] =
                    IF cooldownFrames[w] > 0 THEN cooldownFrames[w] - 1 ELSE 0]_vars

\* C2 witness: an update has just brought a cooling weapon back to 0
C2_Witness ==
    /\ weaponCall.op = "update"
    /\ weaponCall.ticks = FireRate(weaponCall.weapon) - 1
    /\ cooldownFrames[weaponCall.weapon] = 0

\* C3: with an owner attached, after a successful fire every fire attempted
\* after fewer than fireRate update() calls fails, and after exactly fireRate
\* update() calls the cooldown is 0 and the next fire succeeds (fireRate 30:
\* the fires at ticks 1..29 fail, the fire after 30 updates succeeds).
C3_CooldownWindow ==
    /\ [](\A w \in WeaponTypes :
            /\ sinceFire[w] \in 0..(FireRate(w) - 1) => cooldownFrames[w] > 0
            /\ sinceFire[w] >= FireRate(w) => cooldownFrames[w] = 0)
    /\ [][FireStep =>
            LET w == weaponCall'.weapon IN
            /\ sinceFire[w] \in 0..(FireRate(w) - 1) => weaponCall'.result = FALSE
            /\ (owner[w] /\ sinceFire[w] >= FireRate(w)) => weaponCall'.result = TRUE]_vars

\* C3 witness: the chip shotgun (fireRate 30) fires again after exactly 30 updates
C3_Witness ==
    /\ weaponCall.op = "fire" /\ weaponCall.weapon = "chipshotgun"
    /\ weaponCall.result /\ weaponCall.ticks = ChipFireRate
    /\ cooldownFrames["chipshotgun"] = ChipFireRate

(***************************************************************************)
(*                   Properties of InputMapper (C4 - C6)                   *)
(***************************************************************************)

\* a step that is a call of InputMapper.update(): one frame to the next
InputUpdateStep == frame' # frame

\* C4: isActionJustPressed(a) is true in frame N iff a is in the current set
\* of frame N and was not in the current set of frame N-1; an action held over
\* consecutive frames is just pressed in the first of them only.
C4_JustPressedIsRisingEdge ==
    /\ [](\A a \in GameAction : isActionJustPressed(a) <=> heldFrames[a] = 1)
    /\ [][InputUpdateStep =>
            \A a \in GameAction :
                isActionJustPressed(a)' <=>
                    (a \in currentActions' /\ a \notin currentActions)]_vars

\* C4 witness: jump is held for its second frame or more (not just pressed)
\* while primary fire is in its first frame (just pressed)
C4_Witness ==
    /\ heldFrames["jump"] = 2 /\ ~isActionJustPressed("jump")
    /\ heldFrames["primaryFire"] = 1 /\ isActionJustPressed("primaryFire")

\* a step that is a call of InputMapper.destroy(): both sets are emptied
InputDestroyStep ==
    frame' = frame /\ currentActions' = {} /\ previousActions' = {}

\* C5: after every update() the previous set is the current set as it stood
\* just before that update, and between updates the stored previous set stays
\* as it is; only destroy(), which empties both sets, touches it.
C5_PreviousIsPriorCurrent ==
    /\ [][InputUpdateStep => previousActions' = currentActions]_vars
    /\ [][~InputUpdateStep =>
            \/ previousActions' = previousActions
            \/ InputDestroyStep]_vars

\* C5 witness: a frame whose previous and current sets are both non-empty and differ
C5_Witness ==
    /\ previousActions # {} /\ currentActions # {}
    /\ previousActions \ currentActions # {}
    /\ currentActions \ previousActions # {}

\* C6: after update() an action is current iff at least one reader (keyboard,
\* gamepad, virtual joystick, mobile buttons) reports it for that frame; no
\* reader removes what an earlier reader added.
C6_CurrentIsUnionOfReaders ==
    [][InputUpdateStep =>
        currentActions' =
            KeyboardActions(keysPressed)
            \cup GamepadActions(gamepad')
            \cup JoystickActions(hasJoystick, joystickForce')
            \cup MobileActions(mobileJumpPressed, mobileFirePressed)]_vars

\* C6 witness: keyboard, gamepad, joystick and a mobile button all contribute
\* to the same frame, keyboard and gamepad both reporting primary fire
C6_Witness ==
    /\ "primaryFire" \in KeyboardActions(keysPressed) \cap GamepadActions(gamepad)
    /\ "jump" \in MobileActions(mobileJumpPressed, mobileFirePressed)
    /\ "moveRight" \in JoystickActions(hasJoystick, joystickForce)
    /\ currentActions =
            KeyboardActions(keysPressed) \cup GamepadActions(gamepad)
            \cup JoystickActions(hasJoystick, joystickForce)
            \cup MobileActions(mobileJumpPressed, mobileFirePressed)
    /\ {"attack", "pause", "moveLeft"} \subseteq currentActions

(***************************************************************************)
(*      Properties of StatusEffectManager and SoggyEffect (C7 - C10)       *)
(***************************************************************************)

\* StatusEffectManager.hasEffect / getEffect
hasEffect(type) == type \in DOMAIN activeEffects
getEffect(type) == activeEffects[type]

\* effect objects whose apply-hook has run and whose remove-hook has not
LiveInstances == {i \in EffectIds : applyCalls[i] > removeCalls[i]}

\* steps that are a call of applyEffect / of the manager's update()
EffectApplyStep == effectCall'.op = "apply" /\ nextEffectId' # nextEffectId
EffectUpdateStep == effectCall'.op = "update" /\ vars' # vars

\* C7: applyEffect of a type that is already active runs the old instance's
\* remove-hook exactly once and then the new instance's apply-hook exactly once,
\* in that order; at every moment at most one instance per type is applied and
\* it is the one the manager holds.
C7_ReplaceRemovesThenApplies ==
    /\ [](/\ Cardinality(LiveInstances) <= 1
          /\ \A i \in EffectIds : removeCalls[i] <= applyCalls[i] /\ applyCalls[i] <= 1
          /\ LiveInstances =
                IF hasEffect("soggy") THEN {getEffect("soggy").id} ELSE {})
    /\ [][(EffectApplyStep /\ target /\ hasEffect("soggy")) =>
            LET old == getEffect("soggy").id
                new == nextEffectId
            IN  /\ Len(hookLog') = 2
                /\ hookLog'[1].hook = "remove" /\ hookLog'[1].id = old
                /\ hookLog'[2].hook = "apply" /\ hookLog'[2].id = new
                /\ removeCalls'[old] = 1 /\ applyCalls'[new] = 1
                /\ hasEffect("soggy")' /\ getEffect("soggy")'.id = new]_vars

\* C7 witness: an applyEffect that replaced an active effect
C7_Witness ==
    /\ effectCall.op = "apply" /\ Len(hookLog) = 2
    /\ hookLog[1].hook = "remove" /\ hookLog[2].hook = "apply"
    /\ hookLog[1].id # hookLog[2].id
    /\ removeCalls[hookLog[1].id] = 1 /\ applyCalls[hookLog[2].id] = 1

\* C8: an effect with duration -1 is never expired or removed by update(); an
\* effect with duration N > 0 is still active after N-1 updates and is removed,
\* its remove-hook run exactly once, during update number N.
C8_ExpiryAtDuration ==
    /\ [](hasEffect("soggy") =>
            LET e == getEffect("soggy")
            IN  e.duration > 0 => e.age < e.duration)
    /\ [][(EffectUpdateStep /\ hasEffect("soggy")) =>
            LET e == getEffect("soggy")
            IN  IF e.duration = Permanent \/ (e.duration > 0 /\ e.age + 1 < e.duration)
                THEN /\ hasEffect("soggy")' /\ getEffect("soggy")'.id = e.id
                     /\ removeCalls'[e.id] = 0
                     /\ hookLog' = <<>>
                ELSE /\ e.duration > 0 /\ e.age + 1 = e.duration
                     /\ ~hasEffect("soggy")'
                     /\ removeCalls'[e.id] = 1
                     /\ Len(hookLog') = 1
                     /\ hookLog'[1].hook = "remove" /\ hookLog'[1].id = e.id]_vars

\* C8 witness: an effect of duration 2 removed by its second update
C8_Witness ==
    /\ effectCall.op = "update" /\ Len(hookLog) = 1
    /\ hookLog[1].hook = "remove"
    /\ hookLog[1].duration = 2 /\ hookLog[1].age = 2
    /\ removeCalls[hookLog[1].id] = 1
    /\ ~hasEffect("soggy")

\* C9: applying a Soggy effect sets the speed to 1.5 times the speed at apply
\* time; removing it (expiry after exactly `duration` updates, explicit removal,
\* clearAll or replacement) sets the speed back to exactly the value recorded
\* at apply time (100 becomes 150 and is 100 again after 300 updates).
C9_SoggySpeedRoundTrip ==
    /\ [](hasEffect("soggy") =>
            getEffect("soggy").originalSpeed = speedAtApply[getEffect("soggy").id])
    /\ [][(EffectApplyStep /\ target) =>
            LET new == nextEffectId
                before == IF hasEffect("soggy")
                          THEN speedAtApply[getEffect("soggy").id]
                          ELSE currentSpeed
            IN  /\ speedAtApply'[new] = before
                /\ currentSpeed' * 10 = before * 15]_vars
    /\ [][(hasEffect("soggy") /\ removeCalls'[getEffect("soggy").id] # 0) =>
            LET e == getEffect("soggy")
            IN  IF hasEffect("soggy")'
                THEN currentSpeed' * 10 = speedAtApply[e.id] * 15
                ELSE currentSpeed' = speedAtApply[e.id]]_vars
    /\ [][(EffectUpdateStep /\ hasEffect("soggy") /\ getEffect("soggy").duration > 0) =>
            (~hasEffect("soggy")' <=>
                getEffect("soggy").age + 1 = getEffect("soggy").duration)]_vars

\* C9 witness: a default-duration effect applied at speed 100 has expired in
\* its 300th update and the speed is 100 again
C9_Witness ==
    /\ effectCall.op = "update" /\ Len(hookLog) = 1
    /\ hookLog[1].hook = "remove"
    /\ hookLog[1].duration = DefaultSoggyDuration
    /\ hookLog[1].age = DefaultSoggyDuration
    /\ speedAtApply[hookLog[1].id] = PLAYER_SPEED
    /\ currentSpeed = PLAYER_SPEED

\* C10: Soggy effects never stack: after any sequence of applySoggy and update
\* calls the speed is the base speed exactly when no Soggy effect is active and
\* 1.5 times the base speed exactly when one is; a re-apply leaves the
\* remaining time equal to the new effect's duration.
C10_SoggyNeverStacks ==
    /\ [](/\ currentSpeed \in {PLAYER_SPEED, ScaleSpeed(PLAYER_SPEED)}
          /\ hasEffect("soggy") <=> currentSpeed = ScaleSpeed(PLAYER_SPEED)
          /\ Cardinality(LiveInstances) = IF hasEffect("soggy") THEN 1 ELSE 0)
    /\ [][EffectApplyStep =>
            /\ hasEffect("soggy")'
            /\ getEffect("soggy")'.id = nextEffectId
            /\ getEffect("soggy")'.duration = effectCall'.arg
            /\ getEffect("soggy")'.remainingFrames = effectCall'.arg]_vars

\* C10 witness: a Soggy effect re-applied while an older one had already
\* counted down, the speed still 150 and the remaining time the new duration
C10_Witness ==
    /\ effectCall.op = "apply" /\ Len(hookLog) = 2
    /\ hookLog[1].hook = "remove" /\ hookLog[1].age > 0
    /\ hookLog[1].duration # effectCall.arg
    /\ hasEffect("soggy")
    /\ getEffect("soggy").remainingFrames = effectCall.arg
    /\ currentSpeed = ScaleSpeed(PLAYER_SPEED)

(***************************************************************************)
(*            Properties of the projectile pool (C11)                      *)
(***************************************************************************)

\* a step that is a call of ChipShotgun.onFire on the pool
PoolFireStep == weaponCall'.op = "onFire"

\* C11: the number of active projectiles never exceeds the pool capacity of
\* 30: a launch requested while 30 projectiles are active creates no
\* projectile, raises no error, is not queued and does not grow the pool
\* (launches beyond the 30th in one tick leave exactly 30 active).
C11_PoolCapacity ==
    /\ [](/\ ActiveCount(pool) <= ChipPoolSize
          /\ Len(pool) <= ChipPoolSize
          /\ projectiles \subseteq 1..Len(pool))
    /\ [][PoolFireStep =>
            /\ ActiveCount(pool') = Min(ActiveCount(pool) + Len(spreadAngles), ChipPoolSize)
            /\ Len(launchLog') = Len(spreadAngles)
            /\ \A k \in 1..Len(launchLog') :
                    launchLog'[k].outcome = "dropped"
                        <=> ActiveCount(pool) + k > ChipPoolSize
            /\ ActiveCount(pool) = ChipPoolSize => pool' = pool /\ projectiles' = projectiles]_vars
    /\ [][~PoolFireStep => ActiveCount(pool') <= ActiveCount(pool)]_vars

\* C11 witness: 30 projectiles were active when onFire asked for three more
\* and all three launches were dropped
C11_Witness ==
    /\ weaponCall.op = "onFire" /\ weaponCall.ticks = ChipPoolSize
    /\ ActiveCount(pool) = ChipPoolSize /\ Len(pool) = ChipPoolSize
    /\ Len(launchLog) = Len(spreadAngles)
    /\ \A k \in 1..Len(launchLog) : launchLog[k].outcome = "dropped"

(***************************************************************************)
(*                 Properties of digitalizeAxis (C12, C13)                 *)
(***************************************************************************)

\* sign(v)
Sign(v) == IF v < 0 THEN 0 - 1 ELSE IF v > 0 THEN 1 ELSE 0

\* the gamepad reader's movement actions for a pad whose stick is at (x, 0)
\* and whose buttons are all up
StickActions(x) ==
    GamepadActions([present |-> TRUE, axisX |-> x, axisY |-> 0, buttons |-> {}])

\* C12 as stated: for every analog value v and deadzone d, digitalizeAxis(v, d)
\* returns 0 if and only if |v| < d, returns sign(v) otherwise, and never
\* returns a value outside {-1, 0, 1}.
C12_Original ==
    axisDone =>
        /\ axisResult \in {0 - 1, 0, 1}
        /\ axisResult = 0 <=> Abs(axisValue) < axisDeadzone
        /\ Abs(axisValue) >= axisDeadzone => axisResult = Sign(axisValue)

\* C12 amended: for every analog value v and deadzone d, digitalizeAxis(v, d)
\* never returns a value outside {-1, 0, 1}, returns 0 if and only if
\* |v| < d, and otherwise returns -1 for v < 0 and 1 for v >= 0; this is
\* sign(v) for every deadzone d > 0 (deadzone 0.2: 0.15 gives 0, -0.5 gives
\* -1), while with a deadzone of 0 the value 0 gives 1.
C12_DigitalizeIsSignOutsideDeadzone ==
    axisDone =>
        /\ axisResult \in {0 - 1, 0, 1}
        /\ axisResult = 0 <=> Abs(axisValue) < axisDeadzone
        /\ Abs(axisValue) >= axisDeadzone =>
                axisResult = IF axisValue < 0 THEN 0 - 1 ELSE 1
        /\ (axisDeadzone > 0 /\ Abs(axisValue) >= axisDeadzone) =>
                axisResult = Sign(axisValue)
        /\ (axisDeadzone = 0 /\ axisValue = 0) => axisResult = 1

\* C12 witness: deadzone 0.2, value -0.5 has been digitalized to -1
C12_Witness ==
    /\ axisDone /\ axisDeadzone = INPUT_DEADZONE
    /\ axisValue = 0 - 50 /\ axisResult = 0 - 1

\* C13: a value whose magnitude is exactly equal to the deadzone (|v| = d) is
\* digitalized to 0: the threshold is inclusive, so a value at the boundary
\* never produces -1 or 1 and never activates a movement action.
C13_BoundaryIsZero ==
    (axisDone /\ Abs(axisValue) = axisDeadzone) =>
        /\ axisResult = 0
        /\ axisDeadzone = INPUT_DEADZONE => StickActions(axisValue) = {}

(***************************************************************************)
(*                 Properties of WeaponManager (C14, C15)                  *)
(***************************************************************************)

\* steps that are a call of nextWeapon / previousWeapon
NextWeaponStep == weaponCall'.op = "nextWeapon" /\ vars' # vars
PreviousWeaponStep == weaponCall'.op = "previousWeapon" /\ vars' # vars

\* the selection (index and weapon held) of a manager record
Selection(A) == <<A.index, A.current>>

\* C14: weapon selection is circular: the current index always stays within
\* 0..3 and, for a manager that holds its weapons, currentWeapon is always the
\* weapon at weaponOrder[currentIndex]; nextWeapon on the last weapon selects
\* the first, previousWeapon on the first selects the last, nextWeapon followed
\* by previousWeapon (in either order) restores the selection, and four
\* consecutive nextWeapon calls return to the starting weapon.
C14_CircularSelection ==
    /\ [](/\ currentIndex \in 0..3
          /\ nextWeapon(previousWeapon(Arsenal)).index = currentIndex
          /\ previousWeapon(nextWeapon(Arsenal)).index = currentIndex
          /\ nextWeapon(nextWeapon(nextWeapon(nextWeapon(Arsenal)))).index = currentIndex)
    /\ [](HoldsWeapons =>
            /\ currentWeapon = weaponOrder[currentIndex + 1]
            /\ Selection(previousWeapon(nextWeapon(Arsenal))) = Selection(Arsenal)
            /\ Selection(nextWeapon(previousWeapon(Arsenal))) = Selection(Arsenal)
            /\ Selection(nextWeapon(nextWeapon(nextWeapon(nextWeapon(Arsenal)))))
                  = Selection(Arsenal))
    /\ [][NextWeaponStep =>
            /\ currentIndex' = IF currentIndex = 3 THEN 0 ELSE currentIndex + 1
            /\ HoldsWeapons => (currentWeapon' = weaponOrder[currentIndex' + 1]
                                /\ ~weaponCall'.threw)]_vars
    /\ [][PreviousWeaponStep =>
            /\ currentIndex' = IF currentIndex = 0 THEN 3 ELSE currentIndex - 1
            /\ HoldsWeapons => (currentWeapon' = weaponOrder[currentIndex' + 1]
                                /\ ~weaponCall'.threw)]_vars

\* C14 witness: nextWeapon called with the last weapon (the flamer) selected
\* has selected the first (the pummeler)
C14_Witness ==
    /\ weaponCall.op = "nextWeapon" /\ weaponCall.weapon = "masalaflamer"
    /\ currentIndex = 0 /\ currentWeapon = "polonypummeler"

\* C15: WeaponManager.fire acts on the currently selected weapon only: it
\* returns that weapon's fire result and leaves the cooldown of every other
\* weapon unchanged; nextWeapon and previousWeapon change no weapon's cooldown,
\* while WeaponManager.update decrements the cooldown of every weapon whether
\* it is selected or not.
C15_FireSelectedUpdateAll ==
    /\ [][FireStep =>
            LET w == currentWeapon IN
            /\ HoldsWeapons => w = weaponOrder[currentIndex + 1]
            /\ weaponCall'.weapon = w
            /\ weaponCall'.result = (cooldownFrames[w] = 0 /\ owner[w])
            /\ cooldownFrames'[w] = IF weaponCall'.result THEN FireRate(w)
                                    ELSE cooldownFrames[w]
            /\ \A o \in WeaponTypes \ {w} : cooldownFrames'[o] = cooldownFrames[o]
            /\ \A e \in 1..Len(onFireLog') : onFireLog'[e].weapon = w
            /\ currentIndex' = currentIndex]_vars
    /\ [][(NextWeaponStep \/ PreviousWeaponStep) =>
            /\ cooldownFrames' = cooldownFrames
            /\ onFireLog' = <<>>]_vars
    /\ [][WeaponUpdateStep =>
            /\ \A w \in weapons :
                    cooldownFrames'[w] =
                        IF cooldownFrames[w] > 0 THEN cooldownFrames[w] - 1 ELSE 0
            /\ currentIndex' = currentIndex]_vars

\* C15 witness: an update has just decremented the cooldowns of two weapons
\* that are not selected, the selected weapon being ready
C15_Witness ==
    /\ weaponCall.op = "update"
    /\ currentWeapon = "calamariwhip"
    /\ cooldownFrames["calamariwhip"] = 0
    /\ cooldownFrames["polonypummeler"] = PolonyFireRate - 1
    /\ cooldownFrames["chipshotgun"] = ChipFireRate - 2

(***************************************************************************)
(*                Properties of the frame loop (C16, C17)                  *)
(***************************************************************************)

\* the four components the frame order speaks of
IsComponent(c) == c \in {"inputMapper", "statusEffects", "weapons", "movement"}
ComponentOrder == SelectSeq(frameLog, IsComponent)

\* C16 as stated: within every gameplay frame the components are advanced
\* exactly once each in the fixed order input mapper update, then
\* status-effect manager update, then weapon manager update, then player
\* movement/animation.
C16_Original ==
    frameLog # <<>> =>
        ComponentOrder = <<"inputMapper", "statusEffects", "weapons", "movement">>

\* C16 amended: within every gameplay frame the components are advanced
\* exactly once each in the fixed order input mapper update, then weapon
\* manager update, then status-effect manager update, then player
\* movement/animation; nothing but a frame advances them.
C16_FrameOrder ==
    /\ [](frameLog # <<>> =>
            ComponentOrder = <<"inputMapper", "weapons", "statusEffects", "movement">>)
    /\ [][InputUpdateStep =>
            /\ frameLog' # <<>>
            /\ previousActions' = currentActions
            /\ \A w \in WeaponTypes :
                    cooldownFrames'[w] \in
                        {IF cooldownFrames[w] > 0 THEN cooldownFrames[w] - 1 ELSE 0,
                         FireRate(w)}]_vars
    /\ [][~InputUpdateStep =>
            UNCHANGED <<cooldownFrames, activeEffects, currentActions,
                        previousActions, coyoteFrames, flipX, frameLog>>]_vars

\* C16 witness: a frame has run in which the selected weapon was cooling down
\* and fire was refused, a frame after the one in which it fired
C16_Witness ==
    /\ frameLog # <<>>
    /\ weaponCall.op = "frame" /\ ~weaponCall.result
    /\ isActionActive("primaryFire") /\ ~isActionJustPressed("primaryFire")
    /\ cooldownFrames[currentWeapon] = FireRate(currentWeapon) - 1

\* C17: for the Masala Flamer, once the fire input stops being held the
\* flame-cone region is torn down: it no longer exists after the next weapon
\* update and never persists while the player is not firing (including after
\* switching to another weapon).
C17_NoConeWithoutFire ==
    flameCone => (isActionActive("primaryFire") /\ currentWeapon = "masalaflamer")

\* C17 witness: the cone exists although fire has not been held for two
\* frames and another weapon is selected
C17_Witness ==
    /\ flameCone
    /\ "primaryFire" \notin currentActions \cup previousActions
    /\ currentWeapon # "masalaflamer"
    /\ weaponCall.op = "frame"

(***************************************************************************)
(*                       Properties of Enemy (C18)                         *)
(***************************************************************************)

\* C18: after every Enemy.takeDamage call the saturation counter is below
\* maxSaturation: whenever the accumulated saturation reaches the configured
\* threshold the enemy is put in its soggy state and the counter is reset to 0,
\* so getSaturation() always lies between 0 and maxSaturation after any
\* sequence of hits.
C18_SaturationBelowMax ==
    /\ getSaturation >= 0
    /\ getSaturation < EnemyMaxSaturation
    /\ (enemyCall.op = "takeDamage"
        /\ enemyCall.before + SaturationPerHit(enemyCall.weapon) >= EnemyMaxSaturation)
            => (getIsSoggy /\ getSaturation = 0)

\* C18 witness: an enemy that is already soggy has been hit again and its
\* counter stands at or above maxSaturation
C18_Witness ==
    /\ enemyCall.op = "takeDamage" /\ enemyCall.wasSoggy
    /\ getIsSoggy /\ ~enemyDestroyed
    /\ getSaturation >= EnemyMaxSaturation

(***************************************************************************)
(*               Properties of InputMapper.setScene (C19, C20)             *)
(***************************************************************************)

\* the actions the devices other than the keyboard report for a frame
OtherDeviceActions(gp, force) ==
    GamepadActions(gp) \cup JoystickActions(hasJoystick, force)
        \cup MobileActions(mobileJumpPressed, mobileFirePressed)

\* C19: InputMapper.setScene(newScene) clears the accumulated low-level key
\* state: immediately after a re-attach no keyboard-derived action is active,
\* and a key that was down before the re-attach is reported again only after a
\* new physical key event arrives on the new scene.
C19_SetSceneClearsKeys ==
    /\ [](keysPressed \subseteq keysSinceAttach)
    /\ [][InputUpdateStep =>
            currentActions' \ OtherDeviceActions(gamepad', joystickForce')
                \subseteq KeyboardActions(keysSinceAttach)]_vars

\* C20: if the scene's keyboard is unavailable when InputMapper.setScene runs,
\* setScene does not raise, every later update() contributes no
\* keyboard-derived action (whatever happened on earlier scenes), and actions
\* from gamepad, virtual joystick and mobile buttons are still reported.
C20_NoKeyboardNoKeyActions ==
    [][(InputUpdateStep /\ ~listening) =>
            currentActions' = OtherDeviceActions(gamepad', joystickForce')]_vars

(***************************************************************************)
(*        Properties of the transient weapon visuals (C21, C26)            *)
(***************************************************************************)

\* a step in which the scene clock runs an expiry callback of the weapon
ExpireStep == visCall'.op = "expire" /\ visTimers' # visTimers

\* the object made by the n-th fire has been destroyed by the weapon's destroy()
RemovedByDestroy(n) == \E k \in 1..Len(visDestroys[n]) : visDestroys[n][k] = 0

\* C21: an expiry callback that runs after the weapon's destroy() removed the
\* callback's visual is a no-op: no object is destroyed by it and the weapon's
\* field and cooldown are as before.
C21_ExpiryAfterDestroyIsNoOp ==
    [][(ExpireStep /\ RemovedByDestroy(Head(visTimers).fire)) =>
            /\ visual' = visual
            /\ visDestroys' = visDestroys
            /\ visCooldown' = visCooldown]_vars

\* a callback has run after destroy() removed its visual
C21_Witness ==
    /\ visCall.op = "expire"
    /\ RemovedByDestroy(visCall.fire)

\* the callback of the n-th fire is still pending
TimerPending(n) == \E k \in 1..Len(visTimers) : visTimers[k].fire = n

\* C26: every hit-region made by a Polony Pummeler fire is destroyed at most
\* once and never by the expiry callback of another fire, and once its own
\* timer has run it is destroyed (no region stays alive, referenced or not).
C26_RegionExpiresOnOwnTimer ==
    visWeapon = "polonypummeler" =>
        \A n \in 1..visCreated :
            /\ Len(visDestroys[n]) <= 1
            /\ \A k \in 1..Len(visDestroys[n]) : visDestroys[n][k] \in {0, n}
            /\ ~TimerPending(n) => Len(visDestroys[n]) = 1

\* two fires have been made and the callback of the first has run
C26_Witness ==
    /\ visWeapon = "polonypummeler"
    /\ visCreated = 2
    /\ ~TimerPending(1)

(***************************************************************************)
(*          Properties of coyote time and jump buffering (C23, C24)        *)
(***************************************************************************)

\* a step that is one scene update
SceneUpdateStep == frame' # frame /\ frameLog' # <<>>

\* C23: after leaving the floor without jumping, a jump press in any of the
\* next COYOTE_TIME_FRAMES updates performs a jump, a press in a later airborne
\* update performs none, and after a jump no further jump is performed until
\* the body has been on the floor again.
C23_CoyoteWindow ==
    [][(SceneUpdateStep /\ airFrames' > 0) =>
            /\ (/\ isActionJustPressed("jump")'
                /\ airFrames' <= COYOTE_TIME_FRAMES
                /\ ~jumpedSinceFloor) => jumpCalls' > 0
            /\ (airFrames' > COYOTE_TIME_FRAMES \/ jumpedSinceFloor) => jumpCalls' = 0]_vars

\* a jump has been pressed in the last update of the grace period, with no
\* jump since the body left the floor
C23_Witness ==
    /\ airFrames = COYOTE_TIME_FRAMES
    /\ isActionJustPressed("jump")
    /\ frameLog # <<>>
    /\ (jumpCalls > 0 \/ ~jumpedSinceFloor)

\* C24: a jump press made while the player cannot jump waits in the buffer: if
\* the body is on the floor in any of the INPUT_BUFFER_FRAMES updates after the
\* press, that update performs the jump and empties the buffer; without a new
\* press no jump is performed once the press is older than that, nor after it
\* has been honoured.
C24_JumpBuffer ==
    [][SceneUpdateStep =>
            /\ (/\ pressAge # NoPress
                /\ pressAge + 1 <= INPUT_BUFFER_FRAMES
                /\ airFrames' = 0) => (jumpCalls' > 0 /\ jumpBufferFrames' = 0)
            /\ (/\ pressAge = NoPress \/ pressAge + 1 > INPUT_BUFFER_FRAMES
                /\ ~isActionJustPressed("jump")') => jumpCalls' = 0]_vars

\* the body has landed in the last update of the buffer window of a press
C24_Witness ==
    /\ frameLog # <<>>
    /\ airFrames = 0
    /\ pressAge = INPUT_BUFFER_FRAMES

(***************************************************************************)
(*               Properties of the device callbacks (C22)                  *)
(***************************************************************************)

\* a step in which a key or mobile-button callback ran
DeviceEventStep ==
    \/ keysPressed' # keysPressed
    \/ mobileJumpPressed' # mobileJumpPressed
    \/ mobileFirePressed' # mobileFirePressed

\* C22: a key or mobile-button callback writes only the buffered device state:
\* the current and previous action sets, and with them isActionActive,
\* isActionJustPressed and getAxis, are what they were.
C22_EventsOnlyBuffer ==
    [][DeviceEventStep =>
            /\ currentActions' = currentActions
            /\ previousActions' = previousActions
            /\ \A a \in GameAction :
                    /\ isActionActive(a)' = isActionActive(a)
                    /\ isActionJustPressed(a)' = isActionJustPressed(a)
            /\ getAxis' = getAxis
            /\ UNCHANGED <<touchDevice, listening, hasJoystick, gamepad, joystickForce>>]_vars

\* after an update, a key and a mobile button are down that the action sets
\* do not show yet
C22_Witness ==
    /\ frame = 1
    /\ "KeyZ" \in keysPressed
    /\ mobileJumpPressed
    /\ "primaryFire" \notin currentActions
    /\ "jump" \notin currentActions

(***************************************************************************)
(*              Properties of clearAll and destroy (C25)                   *)
(***************************************************************************)

\* a step that is a call of clearAll() or destroy()
ClearStep == effectCall'.op \in {"clearAll", "destroy"} /\ vars' # vars

\* C25: clearAll() and destroy() run the remove-hook of every active effect
\* exactly once and of no other effect, and leave no effect active; the target's
\* speed is then the speed it had when the effect was applied.
C25_ClearRunsRemoveHooks ==
    [][ClearStep =>
            /\ activeEffects' = <<>>
            /\ \A i \in EffectIds :
                    removeCalls'[i] = removeCalls[i] +
                        (IF \E t \in DOMAIN activeEffects : activeEffects[t].id = i
                         THEN 1 ELSE 0)
            /\ Len(hookLog') = Cardinality(DOMAIN activeEffects)
            /\ \A k \in 1..Len(hookLog') : hookLog'[k].hook = "remove"
            /\ hasEffect("soggy") =>
                    currentSpeed' = speedAtApply[getEffect("soggy").id]]_vars

\* destroy() has removed a Soggy effect that was applied at speed 60
C25_Witness ==
    /\ effectCall.op = "destroy"
    /\ Len(hookLog) = 1
    /\ hookLog[1].hook = "remove"
    /\ speedAtApply[hookLog[1].id] = 60
    /\ currentSpeed = 60
    /\ activeEffects = <<>>

(***************************************************************************)
(*                Properties of the flame cone (C27)                       *)
(***************************************************************************)

\* the onFire invocations of the Masala Flamer in the most recent call; onFire
\* is the only place that positions and rotates the cone
FlamerOnFires(log) == {k \in 1..Len(log) : log[k].weapon = "masalaflamer"}

\* C27: in every frame that ends with the Masala Flamer selected and the fire
\* input held, the cone is positioned at the owner and rotated along the
\* player's facing direction in that frame.
C27_ConeFollowsEveryFrame ==
    [][(/\ SceneUpdateStep
        /\ currentWeapon' = "masalaflamer"
        /\ owner'["masalaflamer"]
        /\ isActionActive("primaryFire")') =>
            \E k \in FlamerOnFires(onFireLog') :
                onFireLog'[k].direction = facingDirection(flipX')]_vars

\* the fire input has been held for a second frame with the flamer selected
C27_Witness ==
    /\ weaponCall.op = "frame"
    /\ currentWeapon = "masalaflamer"
    /\ heldFrames["primaryFire"] = 2
    /\ flameCone

(***************************************************************************)
(*              Properties of the damage flash (C28)                       *)
(***************************************************************************)

\* a step in which the scene clock ran a flash callback of the enemy
FlashStep == enemyCall'.op = "flash" /\ flashTimers' < flashTimers

\* C28: a flash callback that runs after the enemy was destroyed leaves the
\* enemy as it was.
C28_FlashSparesDestroyed ==
    [][(FlashStep /\ enemyDestroyed) =>
            UNCHANGED <<enemyTint, enemyHealth, saturation, isSoggy, enemySpeed>>]_vars

\* the flash callback of a lethal hit has run on the destroyed enemy
C28_Witness ==
    /\ enemyCall.op = "flash"
    /\ enemyDestroyed
    /\ flashTimers = 0

(***************************************************************************)
(*                   Properties of AudioManager (C30)                      *)
(***************************************************************************)

\* a step in which the 'fade' event of Howl h runs the callbacks waiting on it
FadeCallbackStep(h) ==
    /\ audioCall'.op = "fade" /\ audioCall'.howl = h
    /\ fadeListeners[h] # <<>> /\ fadeListeners'[h] = <<>>

\* C30: the fade-out callback of a track stops that track and nothing else:
\* when it runs, the track it was registered for is stopped, and a different
\* track that has become the current music meanwhile keeps playing and stays
\* the current music.
C30_FadeOutStopsOldTrackOnly ==
    [][\A h \in HowlIds :
            FadeCallbackStep(h) =>
                /\ ~playing'[h]
                /\ \A other \in HowlIds \ {h} :
                        /\ playing'[other] = playing[other]
                        /\ currentMusic = other => currentMusic' = other]_vars

\* playMusic("b") was called while "a" was the current music, and the fade of
\* "a" has ended
C30_Witness ==
    /\ music["a"] # NoMusic /\ music["b"] # NoMusic
    /\ audioCall.op = "fade" /\ audioCall.howl = music["a"]
    /\ currentMusic = music["b"]
    /\ fadeListeners[music["a"]] = <<>>
    /\ ~fading[music["a"]]
    /\ audioCalls = 2

(***************************************************************************)
(*                 Properties of the fire direction (C29)                  *)
(***************************************************************************)

\* C29: in every frame that calls weaponManager.fire, the direction handed
\* over points the way the player last moved: (+1, 0) after a move to the
\* right, (-1, 0) after a move to the left.
C29_FireAlongFacing ==
    [][(SceneUpdateStep /\ fireAttempt' # 0 /\ lastMoveX' # 0) =>
            /\ fireAttempt' = lastMoveX'
            /\ \A k \in 1..Len(onFireLog') :
                    onFireLog'[k].direction = [x |-> lastMoveX', y |-> 0]]_vars

\* the player has moved right and a later frame has fired
C29_Witness ==
    /\ weaponCall.op = "frame"
    /\ lastMoveX = 1
    /\ fireAttempt # 0
    /\ onFireLog # <<>>

====
